---- MODULE Spec2Model ----
(***************************************************************************)
(* The financial-insight pipeline of finstory (backend/ai_agent.py,        *)
(* backend/ai_utils.py, backend/financial_calculations.py,                 *)
(* backend/config.py) as a state machine: one action per step of           *)
(* run_langgraph_analysis and per node of the LangGraph workflow.          *)
(*                                                                         *)
(* Representation of Python values                                         *)
(*   dict          a function with a set of strings as its domain; the     *)
(*                 empty dict and the empty list are both << >>            *)
(*   list          a sequence                                              *)
(*   number        an integer counting hundredths (1.5 is 150, -8.33 is    *)
(*                 -833); every metric the code reports is rounded to at   *)
(*                 most two decimals, money amounts are whole numbers      *)
(*   composed str  a sequence of fragments (f-strings are concatenations); *)
(*                 the empty string is << >>                               *)
(*   JSON value    of unknown type: a record tagged by t                   *)
(***************************************************************************)
EXTENDS Integers, Sequences, FiniteSets, TLC

VARIABLES
    config,          \* the process-wide Config: provider and the two keys
    financial_data,  \* argument of run_langgraph_analysis
    persona_arg,     \* argument of run_langgraph_analysis
    pc,              \* "call", a node name of the workflow, "END", "returned"
    persona,         \* the local variable persona of run_langgraph_analysis
    state,           \* the FinancialAnalysisState threaded through the nodes
    result,          \* the returned mapping, << >> until the call returns
    executed,        \* history: the nodes run so far, in order
    ai_calls,        \* history: the calls of generate_ai_response, each with
                     \* the node that made it and the answer it got
    log              \* history: the [OK] / [ERROR] / Warning lines printed

vars == <<config, financial_data, persona_arg, pc, persona, state, result,
          executed, ai_calls, log>>

----------------------------------------------------------------------------
(* Python conventions *)

\* dict.get(k, default)
Get(d, k, default) == IF k \in DOMAIN d THEN d[k] ELSE default

\* {**d1, **d2}: the assignments of d2 made on top of d1
Update(d1, d2) ==
    [k \in DOMAIN d1 \cup DOMAIN d2 |-> IF k \in DOMAIN d2 THEN d2[k] ELSE d1[k]]

\* the outcome of evaluating a block: a value, or a raised exception
Ok(v) == [ok |-> TRUE, val |-> v]
Raise(e) == [ok |-> FALSE, exc |-> e]

\* seq[:n]
Take(seq, n) == IF Len(seq) <= n THEN seq ELSE SubSeq(seq, 1, n)

Last(seq) == seq[Len(seq)]

Abs(x) == IF x < 0 THEN -x ELSE x

\* round(n / d) to the nearest integer, ties to even, as Python's round()
RoundDiv(n, d) ==
    LET nn == IF d < 0 THEN -n ELSE n
        dd == Abs(d)
        q  == nn \div dd
        r  == nn % dd
    IN  IF 2 * r < dd THEN q
        ELSE IF 2 * r > dd THEN q + 1
        ELSE IF q % 2 = 0 THEN q ELSE q + 1

\* float('inf'), above every finite number of the model
Inf == 1000000000

----------------------------------------------------------------------------
(* backend/config.py *)

PERSONAS == {"CFO", "Investor", "Board"}

\* Faulty variant of RISK_THRESHOLDS (sensitivity of C14): the decline
\* thresholds are written as fractions, -0.05 and -0.03, not as percentages.
RISK_THRESHOLDS_Fractions ==
    [revenue_decline |-> -5, margin_decline |-> -3, cash_flow_negative |-> 0,
     debt_ratio_high |-> 70, low_liquidity |-> 150]

\* Faulty variant of RISK_THRESHOLDS (sensitivity of C15): the liquidity
\* threshold is 1.0, the bound of the severity, instead of 1.5.
RISK_THRESHOLDS_Liquidity ==
    [revenue_decline |-> -500, margin_decline |-> -300, cash_flow_negative |-> 0,
     debt_ratio_high |-> 70, low_liquidity |-> 100]

\* in hundredths
RISK_THRESHOLDS ==
    [revenue_decline |-> -500, margin_decline |-> -300, cash_flow_negative |-> 0,
     debt_ratio_high |-> 70, low_liquidity |-> 150]

\* Faulty variant of validate (sensitivity of C6): each provider is checked
\* against the other provider's key.
validate_OtherKey(cfg) ==
    IF cfg.AI_PROVIDER = "openai"
    THEN IF cfg.GEMINI_API_KEY = ""
         THEN Raise(<<"OPENAI_API_KEY is required. Set it in .env file">>)
         ELSE Ok(TRUE)
    ELSE IF cfg.AI_PROVIDER = "gemini"
    THEN IF cfg.OPENAI_API_KEY = ""
         THEN Raise(<<"GEMINI_API_KEY is required. Set it in .env file">>)
         ELSE Ok(TRUE)
    ELSE Raise(<<"Invalid AI_PROVIDER: ", cfg.AI_PROVIDER,
                 ". Must be 'openai' or 'gemini'">>)

\* Config.validate: the exception it raises, or Ok(TRUE)
validate(cfg) ==
    IF cfg.AI_PROVIDER = "openai"
    THEN IF cfg.OPENAI_API_KEY = ""
         THEN Raise(<<"OPENAI_API_KEY is required. Set it in .env file">>)
         ELSE Ok(TRUE)
    ELSE IF cfg.AI_PROVIDER = "gemini"
    THEN IF cfg.GEMINI_API_KEY = ""
         THEN Raise(<<"GEMINI_API_KEY is required. Set it in .env file">>)
         ELSE Ok(TRUE)
    ELSE Raise(<<"Invalid AI_PROVIDER: ", cfg.AI_PROVIDER,
                 ". Must be 'openai' or 'gemini'">>)

----------------------------------------------------------------------------
(* A DataFrame: len rows; num maps each numeric column to its values;      *)
(* str is the set of columns holding text instead of numbers.              *)

Columns(df) == DOMAIN df.num \cup df.str
Has(df, c) == c \in Columns(df)
IsStr(df, c) == c \in df.str
\* df[c].iloc[-1] and df[c].iloc[-2] of a numeric column
Latest(df, c) == df.num[c][df.len]
Prev(df, c) == df.num[c][df.len - 1]

----------------------------------------------------------------------------
(* backend/financial_calculations.py                                       *)
(* Money amounts of a DataFrame are whole numbers; a reported value v is   *)
(* held as 100 * v.  The key cagr of calculate_growth (an n-th root) is    *)
(* left out: no consumer in the pipeline reads it.                         *)

\* the error marker of one category
ErrorMarker(msg) == [error |-> msg]

\* Faulty variant of calculate_growth (sensitivity of C22): the division
\* is made whatever the previous value, a previous value of 0 ends in the
\* except branch.
calculate_growth_Divides(df, column) ==
    IF ~Has(df, column)
    THEN ErrorMarker(<<"Column '", column, "' not found in data">>)
    ELSE IF df.len < 2
    THEN IF df.len > 0 /\ IsStr(df, column)
         THEN ErrorMarker(<<"Growth calculation failed: ", "ValueError">>)
         ELSE [current_value |-> IF df.len > 0 THEN 100 * Latest(df, column) ELSE 0,
               growth_rate   |-> 0,
               growth_amount |-> 0,
               error |-> <<"Insufficient data for growth calculation">>]
    ELSE IF IsStr(df, column)
    THEN ErrorMarker(<<"Growth calculation failed: ", "TypeError">>)
    ELSE IF Prev(df, column) = 0
    THEN ErrorMarker(<<"Growth calculation failed: ", "ZeroDivisionError">>)
    ELSE LET current  == Latest(df, column)
             previous == Prev(df, column)
             rate == IF previous # 0
                     THEN RoundDiv((current - previous) * 10000, Abs(previous))
                     ELSE IF current = 0 THEN 0 ELSE Inf
             amount == IF previous # 0 THEN current - previous ELSE current
             \* the sign of the unrounded growth_rate
             sign == IF previous # 0 THEN current - previous
                     ELSE IF current = 0 THEN 0 ELSE 1
         IN  [current_value  |-> 100 * current,
              previous_value |-> 100 * previous,
              growth_rate    |-> rate,
              growth_amount  |-> 100 * amount,
              trend |-> IF sign > 0 THEN "increasing"
                        ELSE IF sign < 0 THEN "decreasing" ELSE "stable"]

\* calculate_growth(df, column), periods = 1
calculate_growth(df, column) ==
    IF ~Has(df, column)
    THEN ErrorMarker(<<"Column '", column, "' not found in data">>)
    ELSE IF df.len < 2
    THEN IF df.len > 0 /\ IsStr(df, column)
         THEN ErrorMarker(<<"Growth calculation failed: ", "ValueError">>)
         ELSE [current_value |-> IF df.len > 0 THEN 100 * Latest(df, column) ELSE 0,
               growth_rate   |-> 0,
               growth_amount |-> 0,
               error |-> <<"Insufficient data for growth calculation">>]
    ELSE IF IsStr(df, column)
    THEN ErrorMarker(<<"Growth calculation failed: ", "TypeError">>)
    ELSE LET current  == Latest(df, column)
             previous == Prev(df, column)
             rate == IF previous # 0
                     THEN RoundDiv((current - previous) * 10000, Abs(previous))
                     ELSE IF current = 0 THEN 0 ELSE Inf
             amount == IF previous # 0 THEN current - previous ELSE current
             \* the sign of the unrounded growth_rate
             sign == IF previous # 0 THEN current - previous
                     ELSE IF current = 0 THEN 0 ELSE 1
         IN  [current_value  |-> 100 * current,
              previous_value |-> 100 * previous,
              growth_rate    |-> rate,
              growth_amount  |-> 100 * amount,
              trend |-> IF sign > 0 THEN "increasing"
                        ELSE IF sign < 0 THEN "decreasing" ELSE "stable"]

\* The try body of calculate_margin is four blocks run in order; each
\* yields the keys it adds, or the exception it raises.
GrossMarginBlock(df) ==
    IF ~(Has(df, "revenue") /\ Has(df, "cost_of_goods_sold")) THEN Ok(<< >>)
    ELSE IF df.len = 0 THEN Raise("IndexError")
    ELSE IF IsStr(df, "revenue") THEN Raise("TypeError")
    ELSE IF Latest(df, "revenue") = 0 THEN Ok([gross_margin |-> 0])
    ELSE IF IsStr(df, "cost_of_goods_sold") THEN Raise("TypeError")
    ELSE Ok([gross_margin |->
               RoundDiv((Latest(df, "revenue") - Latest(df, "cost_of_goods_sold")) * 10000,
                        Latest(df, "revenue"))])

\* operating margin and net margin: income / revenue * 100
IncomeMarginBlock(df, income_col, key) ==
    IF ~(Has(df, income_col) /\ Has(df, "revenue")) THEN Ok(<< >>)
    ELSE IF df.len = 0 THEN Raise("IndexError")
    ELSE IF IsStr(df, "revenue") THEN Raise("TypeError")
    ELSE IF Latest(df, "revenue") = 0 THEN Ok(<< >>)
    ELSE IF IsStr(df, income_col) THEN Raise("TypeError")
    ELSE Ok([k \in {key} |->
               RoundDiv(Latest(df, income_col) * 10000, Latest(df, "revenue"))])

\* margin_trend: the rounded current gross margin minus the unrounded
\* previous one, rounded again
MarginTrendBlock(df, margins) ==
    IF ~(Has(df, "revenue") /\ Has(df, "cost_of_goods_sold") /\ df.len >= 2)
    THEN Ok(<< >>)
    ELSE IF IsStr(df, "revenue") THEN Raise("TypeError")
    ELSE IF Prev(df, "revenue") = 0 THEN Ok(<< >>)
    ELSE IF IsStr(df, "cost_of_goods_sold") THEN Raise("TypeError")
    ELSE Ok([margin_trend |->
               RoundDiv(Get(margins, "gross_margin", 0) * Prev(df, "revenue")
                          - (Prev(df, "revenue") - Prev(df, "cost_of_goods_sold")) * 10000,
                        Prev(df, "revenue"))])

\* runs the blocks in order on top of the dict built so far; the first
\* exception ends the try body and the category becomes an error marker
RunBlocks(blocks, prefix) ==
    LET first_raise == {i \in DOMAIN blocks : ~blocks[i].ok}
        Fold[i \in 0..Len(blocks)] ==
            IF i = 0 THEN << >> ELSE Update(Fold[i - 1], blocks[i].val)
    IN  IF first_raise = {}
        THEN Fold[Len(blocks)]
        ELSE ErrorMarker(<<prefix,
                           blocks[CHOOSE i \in first_raise :
                                     \A j \in first_raise : i <= j].exc>>)

calculate_margin(df) ==
    LET gross == GrossMarginBlock(df)
        sofar == IF gross.ok THEN gross.val ELSE << >>
    IN  RunBlocks(<<gross,
                    IncomeMarginBlock(df, "operating_income", "operating_margin"),
                    IncomeMarginBlock(df, "net_income", "net_margin"),
                    MarginTrendBlock(df, sofar)>>,
                  "Margin calculation failed: ")

\* The try body of calculate_cash_flow, block by block.
OperatingCashFlowBlock(df) ==
    IF ~Has(df, "cash_from_operations") THEN Ok(<< >>)
    ELSE IF df.len = 0 THEN Raise("IndexError")
    ELSE IF IsStr(df, "cash_from_operations") THEN Raise("ValueError")
    ELSE LET ocf == df.num["cash_from_operations"]
             n   == df.len
         IN  Ok(Update([operating_cash_flow |-> 100 * ocf[n]],
                       IF n >= 3
                       THEN [avg_operating_cash_flow |->
                               RoundDiv((ocf[n - 2] + ocf[n - 1] + ocf[n]) * 100, 3)]
                       ELSE << >>))

FreeCashFlowBlock(df) ==
    IF ~(Has(df, "cash_from_operations") /\ Has(df, "capital_expenditures"))
    THEN Ok(<< >>)
    ELSE IF df.len = 0 THEN Raise("IndexError")
    ELSE IF IsStr(df, "cash_from_operations") \/ IsStr(df, "capital_expenditures")
    THEN Raise("TypeError")
    ELSE Ok([free_cash_flow |->
               100 * (Latest(df, "cash_from_operations")
                        - Latest(df, "capital_expenditures"))])

CashConversionBlock(df) ==
    LET cols == {"accounts_receivable", "inventory", "accounts_payable"}
    IN  IF ~(cols \subseteq Columns(df)) THEN Ok(<< >>)
        ELSE IF df.len = 0 THEN Raise("IndexError")
        ELSE IF IsStr(df, "revenue") THEN Raise("TypeError")
        ELSE LET revenue == IF Has(df, "revenue") THEN Latest(df, "revenue") ELSE 1
             IN  IF ~(revenue > 0) THEN Ok(<< >>)
                 ELSE IF cols \cap df.str # {} THEN Raise("TypeError")
                 ELSE Ok([cash_conversion_cycle |->
                            10 * RoundDiv((Latest(df, "accounts_receivable")
                                             + Latest(df, "inventory")
                                             - Latest(df, "accounts_payable")) * 3650,
                                          revenue)])

\* Faulty variant of CashPositionBlock (sensitivity of C30): the runway is
\* computed whenever operating_cash_flow is there, negative or not.
CashPositionBlock_AnyFlow(df, cash_flow) ==
    IF ~Has(df, "cash_and_equivalents") THEN Ok(<< >>)
    ELSE IF df.len = 0 THEN Raise("IndexError")
    ELSE IF IsStr(df, "cash_and_equivalents") THEN Raise("ValueError")
    ELSE LET cash == Latest(df, "cash_and_equivalents")
             burn == Abs(Get(cash_flow, "operating_cash_flow", 0))
         IN  Ok(Update([cash_position |-> 100 * cash],
                       IF "operating_cash_flow" \in DOMAIN cash_flow
                       THEN [runway_months |->
                               IF burn > 0
                               THEN 10 * RoundDiv(cash * 100 * 12 * 10, burn)
                               ELSE Inf]
                       ELSE << >>))

\* reads operating_cash_flow out of the dict built by the blocks before it
CashPositionBlock(df, cash_flow) ==
    IF ~Has(df, "cash_and_equivalents") THEN Ok(<< >>)
    ELSE IF df.len = 0 THEN Raise("IndexError")
    ELSE IF IsStr(df, "cash_and_equivalents") THEN Raise("ValueError")
    ELSE LET cash == Latest(df, "cash_and_equivalents")
             burn == Abs(Get(cash_flow, "operating_cash_flow", 0))
         IN  Ok(Update([cash_position |-> 100 * cash],
                       IF "operating_cash_flow" \in DOMAIN cash_flow
                          /\ cash_flow["operating_cash_flow"] < 0
                       THEN [runway_months |->
                               IF burn > 0
                               THEN 10 * RoundDiv(cash * 100 * 12 * 10, burn)
                               ELSE Inf]
                       ELSE << >>))

calculate_cash_flow(df) ==
    LET ocf   == OperatingCashFlowBlock(df)
        sofar == IF ocf.ok THEN ocf.val ELSE << >>
    IN  RunBlocks(<<ocf, FreeCashFlowBlock(df), CashConversionBlock(df),
                    CashPositionBlock(df, sofar)>>,
                  "Cash flow calculation failed: ")

\* numerator / denominator (times scale), skipped when the denominator is 0
RatioBlock(df, key, num_col, den_col, scale) ==
    IF ~(Has(df, num_col) /\ Has(df, den_col)) THEN Ok(<< >>)
    ELSE IF df.len = 0 THEN Raise("IndexError")
    ELSE IF IsStr(df, den_col) THEN Raise("TypeError")
    ELSE IF Latest(df, den_col) = 0 THEN Ok(<< >>)
    ELSE IF IsStr(df, num_col) THEN Raise("TypeError")
    ELSE Ok([k \in {key} |->
               RoundDiv(Latest(df, num_col) * scale, Latest(df, den_col))])

QuickRatioBlock(df) ==
    IF ~({"current_assets", "current_liabilities", "inventory"} \subseteq Columns(df))
    THEN Ok(<< >>)
    ELSE IF df.len = 0 THEN Raise("IndexError")
    ELSE IF IsStr(df, "current_assets") \/ IsStr(df, "inventory")
    THEN Raise("TypeError")
    ELSE IF IsStr(df, "current_liabilities") THEN Raise("TypeError")
    ELSE IF Latest(df, "current_liabilities") = 0 THEN Ok(<< >>)
    ELSE Ok([quick_ratio |->
               RoundDiv((Latest(df, "current_assets") - Latest(df, "inventory")) * 100,
                        Latest(df, "current_liabilities"))])

calculate_financial_ratios(df) ==
    RunBlocks(<<RatioBlock(df, "current_ratio", "current_assets", "current_liabilities", 100),
                QuickRatioBlock(df),
                RatioBlock(df, "debt_to_equity", "total_debt", "total_equity", 100),
                RatioBlock(df, "asset_turnover", "revenue", "total_assets", 100),
                RatioBlock(df, "return_on_equity", "net_income", "total_equity", 10000),
                RatioBlock(df, "return_on_assets", "net_income", "total_assets", 10000)>>,
              "Ratio calculation failed: ")

\* the timestamp is the wall clock; its value is read by no one
calculate_all_metrics(df) ==
    [revenue_metrics  |-> IF Has(df, "revenue")
                          THEN calculate_growth(df, "revenue") ELSE << >>,
     profit_metrics   |-> IF Has(df, "net_income")
                          THEN calculate_growth(df, "net_income") ELSE << >>,
     margins          |-> calculate_margin(df),
     cash_flow        |-> calculate_cash_flow(df),
     financial_ratios |-> calculate_financial_ratios(df),
     timestamp        |-> <<"now">>]

key_metrics == {"revenue", "net_income", "operating_income", "cash_from_operations"}

\* the key metrics identify_metric_trends fits a line to, window = 3
Fitted(df) == {m \in key_metrics : Has(df, m) /\ df.len >= 3}

\* The least-squares slope over x = 0, 1, 2 is (y[2] - y[0]) / 2.
\* np.polyfit computes it in floating point (a scaled Vandermonde matrix
\* handed to an SVD solver): a slope that is not 0 keeps its sign, in place
\* of a slope of exactly 0 the call returns the residue of the rounding,
\* which is 0 or of either sign.
ExactSlope(df, m) == df.num[m][df.len] - df.num[m][df.len - 2]
FlatMetrics(df) == {m \in Fitted(df) \ df.str : ExactSlope(df, m) = 0}

\* the sign of the residue np.polyfit returns for each flat window
Residues(df) == [FlatMetrics(df) -> {-1, 0, 1}]

\* identify_metric_trends(df), window = 3: no try block, np.polyfit raises
\* on a text column
identify_metric_trends(df, residue) ==
    IF Fitted(df) \cap df.str # {} THEN Raise("TypeError")
    ELSE Ok([m \in Fitted(df) |->
               LET slope == IF ExactSlope(df, m) # 0 THEN ExactSlope(df, m)
                            ELSE residue[m]
               IN  IF slope > 0 THEN "upward"
                   ELSE IF slope < 0 THEN "downward" ELSE "stable"])

----------------------------------------------------------------------------
(* backend/ai_utils.py: the rule-based risks                               *)
(* The number an f-string embeds in description and indicators is the      *)
(* risk's metric_value; the texts are kept as their templates.             *)

Risk(category, severity, title, description, indicator, impact, value) ==
    [category |-> category, severity |-> severity, title |-> title,
     description |-> description, indicators |-> <<indicator>>,
     impact |-> impact, metric_value |-> value]

\* severity_order.get(x["severity"], 3)
severity_order == [high |-> 0, medium |-> 1, low |-> 2]
SeverityRank(risk) == Get(severity_order, risk["severity"], 3)

\* list.sort(key = ...): a stable sort on a key with the values 0..3
SortBySeverity(risks) ==
    SelectSeq(risks, LAMBDA r : SeverityRank(r) = 0)
      \o SelectSeq(risks, LAMBDA r : SeverityRank(r) = 1)
      \o SelectSeq(risks, LAMBDA r : SeverityRank(r) = 2)
      \o SelectSeq(risks, LAMBDA r : SeverityRank(r) = 3)

\* the risks.append(...) calls of identify_risks, in the order of the code
RuleBasedRisks(metrics) ==
    LET thresholds == RISK_THRESHOLDS
        rev     == Get(metrics, "revenue_metrics", << >>)
        margins == Get(metrics, "margins", << >>)
        cf      == Get(metrics, "cash_flow", << >>)
        ratios  == Get(metrics, "financial_ratios", << >>)
        When(cond, risk) == IF cond THEN <<risk>> ELSE << >>
    IN  When("growth_rate" \in DOMAIN rev
               /\ rev["growth_rate"] < thresholds["revenue_decline"],
             Risk("growth",
                  IF rev["growth_rate"] < -1000 THEN "high" ELSE "medium",
                  "Revenue Decline",
                  "Revenue is declining at {growth_rate}% year-over-year",
                  "Revenue growth: {growth_rate}%",
                  "Reduced profitability and potential market share loss",
                  rev["growth_rate"]))
        \o When("margin_trend" \in DOMAIN margins
                  /\ margins["margin_trend"] < thresholds["margin_decline"],
                Risk("profitability", "medium", "Margin Compression",
                     "Profit margins declining by {margin_trend}%",
                     "Margin change: {margin_trend}%",
                     "Reduced profitability despite revenue performance",
                     margins["margin_trend"]))
        \o When("net_margin" \in DOMAIN margins /\ margins["net_margin"] < 500,
                Risk("profitability", "medium", "Low Net Margin",
                     "Net profit margin is only {net_margin}%",
                     "Net margin: {net_margin}%",
                     "Limited buffer for operational challenges or market changes",
                     margins["net_margin"]))
        \o When("operating_cash_flow" \in DOMAIN cf /\ cf["operating_cash_flow"] < 0,
                Risk("liquidity", "high", "Negative Operating Cash Flow",
                     "Operating cash flow is negative at ${operating_cash_flow:,.2f}",
                     "Negative operating cash flow",
                     "Company is burning cash from core operations",
                     cf["operating_cash_flow"]))
        \o When("runway_months" \in DOMAIN cf /\ cf["runway_months"] < 600,
                Risk("liquidity", "high", "Low Cash Runway",
                     "Only {runway_months:.1f} months of cash remaining at current burn rate",
                     "Cash runway: {runway_months:.1f} months",
                     "Urgent need for funding or profitability improvement",
                     cf["runway_months"]))
        \o When("current_ratio" \in DOMAIN ratios
                  /\ ratios["current_ratio"] < thresholds["low_liquidity"],
                Risk("liquidity",
                     IF ratios["current_ratio"] > 100 THEN "medium" ELSE "high",
                     "Low Liquidity Ratio",
                     "Current ratio of {current_ratio} indicates potential liquidity stress",
                     "Current ratio: {current_ratio}",
                     "May struggle to meet short-term obligations",
                     ratios["current_ratio"]))
        \o When("debt_to_equity" \in DOMAIN ratios
                  /\ ratios["debt_to_equity"] > thresholds["debt_ratio_high"],
                Risk("leverage",
                     IF ratios["debt_to_equity"] < 150 THEN "medium" ELSE "high",
                     "High Leverage",
                     "Debt-to-equity ratio of {debt_to_equity} indicates high leverage",
                     "D/E ratio: {debt_to_equity}",
                     "Increased financial risk and interest burden",
                     ratios["debt_to_equity"]))

\* Faulty variant of identify_risks (sensitivity of C16): the rules are
\* alternatives of one another, only the first that fires emits its risk.
identify_risks_FirstRuleOnly(metrics) == Take(RuleBasedRisks(metrics), 1)

\* identify_risks(metrics): the rules, then the sort by severity
identify_risks(metrics) == SortBySeverity(RuleBasedRisks(metrics))

----------------------------------------------------------------------------
(* Values decoded from JSON, whose Python type the code does not know      *)

\* the payload has its own field name per type: l, s or d
JList(l) == [t |-> "list", l |-> l]
JStr(x) == [t |-> "str", s |-> x]
JDict(d) == [t |-> "dict", d |-> d]
JNull == [t |-> "null"]

\* None, as the result of dict.get on a missing title
None == "<None>"

\* bool(x)
Truthy(j) ==
    \/ j.t = "list" /\ j.l # << >>
    \/ j.t = "str" /\ j.s # << >>
    \/ j.t = "dict" /\ j.d # << >>

\* len(x) is defined
HasLen(j) == j.t \in {"list", "str", "dict"}

(* The text returned by the AI collaborator:                               *)
(*   json   what re.search(r'\{[\s\S]*\}') and json.loads make of it:      *)
(*          "none" no brace-delimited span, "invalid" JSONDecodeError,     *)
(*          "too_deep" RecursionError, "object" a decoded object obj       *)
(*   lines  the text split at newlines and stripped, each line with         *)
(*          kw     the first section keyword group it matches, or "none"   *)
(*          lead   whether it starts with one of - * digit . )             *)
(*          clen   the length of what follows the lead and its blanks      *)
(*          text   the line; content what follows the lead                 *)
(*   length, first_paragraph   len(text), text.split('\n\n')[0][:500]      *)

\* parse_risk_response(response_text): always a value, never an exception
parse_risk_response(response_text) ==
    IF response_text.json = "object"
    THEN Get(response_text.obj, "risks", JList(<< >>))
    ELSE JList(<< >>)

ListSections == {"key_takeaways", "strengths", "concerns", "recommendations"}

\* parse_unstructured_insights(text): one pass over the lines carrying
\* current_section (<None> before any keyword) and the insights so far
parse_unstructured_insights(text) ==
    LET lines == text.lines
        Empty == [key_takeaways |-> << >>, strengths |-> << >>, concerns |-> << >>,
                  recommendations |-> << >>, summary |-> << >>]
        Scan[i \in 0..Len(lines)] ==
            IF i = 0 THEN [section |-> None, insights |-> Empty]
            ELSE LET before  == Scan[i - 1]
                     line    == lines[i]
                     section == IF line.kw # "none" THEN line.kw ELSE before.section
                     ins     == before.insights
                 IN  [section |-> section,
                      insights |->
                        IF section \in ListSections
                        THEN IF line.lead /\ line.clen > 0 /\ line.clen > 10
                             THEN [ins EXCEPT ![section] = Append(@, JStr(<<line.content>>))]
                             ELSE ins
                        ELSE IF section = "summary" /\ line.text # "" /\ ~line.lead
                        THEN [ins EXCEPT !.summary = @ \o <<" ", line.text>>]
                        ELSE ins]
        scanned  == Scan[Len(lines)].insights
        \* .strip() removes the blank put before the first line
        stripped == IF scanned.summary = << >> THEN << >> ELSE Tail(scanned.summary)
        summary  == IF stripped = << >> /\ text.length > 50 /\ text.first_paragraph # ""
                    THEN <<text.first_paragraph>>
                    ELSE stripped
    IN  [k \in DOMAIN Empty |->
           IF k = "summary" THEN JStr(summary) ELSE JList(scanned[k])]

\* parse_insights(response_text); a response that is not a str (None) makes
\* re.search raise, and then response_text[:500] raises in the handler
parse_insights(response_text) ==
    IF response_text.json = "null" THEN Raise("TypeError")
    ELSE IF response_text.json = "object"
    THEN LET parsed == response_text.obj
         IN  Ok([key_takeaways   |-> Get(parsed, "key_takeaways", JList(<< >>)),
                 strengths       |-> Get(parsed, "strengths", JList(<< >>)),
                 concerns        |-> Get(parsed, "concerns", JList(<< >>)),
                 recommendations |-> Get(parsed, "recommendations", JList(<< >>)),
                 summary         |-> Get(parsed, "summary", JStr(<< >>))])
    ELSE IF response_text.json = "too_deep"
    THEN Ok([error |-> JStr(<<"Failed to parse insights: ", "RecursionError">>),
             raw_response |-> JStr(<<"text[:500]">>)])
    ELSE Ok(parse_unstructured_insights(response_text))

----------------------------------------------------------------------------
(* backend/ai_utils.py: the rule-based recommendations                     *)

\* str.lower() of one fragment: the fragments of the model that hold a
\* capital letter, each with its lower-case form
LowerFragment(f) ==
    CASE f = "URGENT: " -> "urgent: "
      [] f = " - Implement immediate cash preservation measures and explore short-term financing options"
           -> " - implement immediate cash preservation measures and explore short-term financing options"
      [] f = "Strategic Action Required: " -> "strategic action required: "
      [] f = " - Review capital structure and consider strategic financing options"
           -> " - review capital structure and consider strategic financing options"
      [] f = "Growth Concern: " -> "growth concern: "
      [] f = " - Assess market position and evaluate strategic pivots or new market opportunities"
           -> " - assess market position and evaluate strategic pivots or new market opportunities"
      [] f = "Margin Improvement: Current net margin at "
           -> "margin improvement: current net margin at "
      [] f = "% - Conduct detailed cost analysis and identify efficiency opportunities"
           -> "% - conduct detailed cost analysis and identify efficiency opportunities"
      [] f = "Cash Flow Management: Negative FCF - Review capital expenditures and optimize working capital management"
           -> "cash flow management: negative fcf - review capital expenditures and optimize working capital management"
      [] f = "Growth Strategy: Revenue growth below market expectations - Explore new revenue streams and market expansion opportunities"
           -> "growth strategy: revenue growth below market expectations - explore new revenue streams and market expansion opportunities"
      [] f = "Scale Infrastructure: High growth rate - Ensure operational infrastructure can support continued rapid expansion"
           -> "scale infrastructure: high growth rate - ensure operational infrastructure can support continued rapid expansion"
      [] f = "Revenue Decline" -> "revenue decline"
      [] f = "Margin Compression" -> "margin compression"
      [] f = "Low Net Margin" -> "low net margin"
      [] f = "Negative Operating Cash Flow" -> "negative operating cash flow"
      [] f = "Low Cash Runway" -> "low cash runway"
      [] f = "Low Liquidity Ratio" -> "low liquidity ratio"
      [] f = "High Leverage" -> "high leverage"
      [] f = "Market Volatility" -> "market volatility"
      [] f = "Covenant Breach" -> "covenant breach"
      [] f = "Reduce cost" -> "reduce cost"
      [] f = "REDUCE COST" -> "reduce cost"
      [] f = "Grow sales" -> "grow sales"
      [] f = "Renegotiate debt" -> "renegotiate debt"
      [] f = "LOW CASH RUNWAY" -> "low cash runway"
      [] OTHER -> f

\* rec.lower()
Lower(rec) == [i \in DOMAIN rec |-> LowerFragment(rec[i])]

\* Faulty variant of RiskRecommendation (sensitivity of C17): the test of
\* the severity is missing, a risk of any severity gets its recommendation.
RiskRecommendation_AnySeverity(risk, who) ==
    IF "severity" \notin DOMAIN risk \/ "category" \notin DOMAIN risk
    THEN Raise("KeyError")
    ELSE IF risk["category"] = "liquidity" /\ who \in {"CFO", "Board"}
    THEN IF "title" \notin DOMAIN risk THEN Raise("KeyError")
         ELSE Ok(<< <<IF who = "CFO" THEN "URGENT: " ELSE "Strategic Action Required: ",
                      risk["title"],
                      IF who = "CFO"
                      THEN " - Implement immediate cash preservation measures and explore short-term financing options"
                      ELSE " - Review capital structure and consider strategic financing options">> >>)
    ELSE IF risk["category"] = "growth" /\ who = "Investor"
    THEN IF "title" \notin DOMAIN risk THEN Raise("KeyError")
         ELSE Ok(<< <<"Growth Concern: ", risk["title"],
                      " - Assess market position and evaluate strategic pivots or new market opportunities">> >>)
    ELSE Ok(<< >>)

\* one turn of the loop over risks: the recommendation it appends, if any;
\* risk["severity"], risk["category"] and risk['title'] raise KeyError
\* on a risk that lacks the key
RiskRecommendation(risk, who) ==
    IF "severity" \notin DOMAIN risk THEN Raise("KeyError")
    ELSE IF risk["severity"] # "high" THEN Ok(<< >>)
    ELSE IF "category" \notin DOMAIN risk THEN Raise("KeyError")
    ELSE IF risk["category"] = "liquidity"
    THEN IF who = "CFO"
         THEN IF "title" \notin DOMAIN risk THEN Raise("KeyError")
              ELSE Ok(<< <<"URGENT: ", risk["title"],
                           " - Implement immediate cash preservation measures and explore short-term financing options">> >>)
         ELSE IF who = "Board"
         THEN IF "title" \notin DOMAIN risk THEN Raise("KeyError")
              ELSE Ok(<< <<"Strategic Action Required: ", risk["title"],
                           " - Review capital structure and consider strategic financing options">> >>)
         ELSE Ok(<< >>)
    ELSE IF risk["category"] = "growth"
    THEN IF who = "Investor"
         THEN IF "title" \notin DOMAIN risk THEN Raise("KeyError")
              ELSE Ok(<< <<"Growth Concern: ", risk["title"],
                           " - Assess market position and evaluate strategic pivots or new market opportunities">> >>)
         ELSE Ok(<< >>)
    ELSE Ok(<< >>)

\* the recommendations of the three blocks that read the metrics
PerformanceRecommendations(metrics, who) ==
    LET margins == Get(metrics, "margins", << >>)
        cf      == Get(metrics, "cash_flow", << >>)
        rev     == Get(metrics, "revenue_metrics", << >>)
        When(cond, rec) == IF cond THEN <<rec>> ELSE << >>
    IN  When("net_margin" \in DOMAIN margins /\ margins["net_margin"] < 1000
               /\ who = "CFO",
             <<"Margin Improvement: Current net margin at ",
               ToString(margins["net_margin"]),
               "% - Conduct detailed cost analysis and identify efficiency opportunities">>)
        \o When("free_cash_flow" \in DOMAIN cf /\ cf["free_cash_flow"] < 0
                  /\ who = "CFO",
                <<"Cash Flow Management: Negative FCF - Review capital expenditures and optimize working capital management">>)
        \o When("growth_rate" \in DOMAIN rev /\ rev["growth_rate"] < 500
                  /\ who = "Investor",
                <<"Growth Strategy: Revenue growth below market expectations - Explore new revenue streams and market expansion opportunities">>)
        \o When("growth_rate" \in DOMAIN rev /\ ~(rev["growth_rate"] < 500 /\ who = "Investor")
                  /\ rev["growth_rate"] > 3000 /\ who = "CFO",
                <<"Scale Infrastructure: High growth rate - Ensure operational infrastructure can support continued rapid expansion">>)

\* Faulty variant of generate_recommendations (sensitivity of C13): the
\* list is returned whole, without the limit to its first five.
generate_recommendations_NoLimit(metrics, risks, who) ==
    LET turns == [i \in DOMAIN risks |-> RiskRecommendation(risks[i], who)]
        Collect[i \in 0..Len(risks)] ==
            IF i = 0 THEN << >> ELSE Collect[i - 1] \o turns[i].val
    IN  IF \E i \in DOMAIN risks : ~turns[i].ok THEN Raise("KeyError")
        ELSE Ok(Collect[Len(risks)] \o PerformanceRecommendations(metrics, who))

\* generate_recommendations(metrics, risks, persona)
generate_recommendations(metrics, risks, who) ==
    LET turns == [i \in DOMAIN risks |-> RiskRecommendation(risks[i], who)]
        Collect[i \in 0..Len(risks)] ==
            IF i = 0 THEN << >> ELSE Collect[i - 1] \o turns[i].val
    IN  IF \E i \in DOMAIN risks : ~turns[i].ok THEN Raise("KeyError")
        ELSE Ok(Take(Collect[Len(risks)] \o PerformanceRecommendations(metrics, who), 5))

----------------------------------------------------------------------------
(* backend/ai_agent.py: the five nodes.  A node maps the state to          *)
(*   state    the state it returns                                         *)
(*   printed  the lines it prints                                          *)
(*   calls    the answers it got from generate_ai_response, one per call   *)
(* An answer of the AI collaborator is [raises |-> TRUE, exc |-> e] or      *)
(* [raises |-> FALSE, text |-> the response text].                         *)

NodeResult(s, printed, calls) == [state |-> s, printed |-> printed, calls |-> calls]

\* Faulty variant of calculate_metrics_node (sensitivity of C3): the except
\* branch swallows the exception without recording it.
calculate_metrics_node_Silent(s, residue) ==
    LET df      == s.financial_data
        metrics == calculate_all_metrics(df)
        trends  == identify_metric_trends(df, residue)
    IN  IF trends.ok
        THEN NodeResult([s EXCEPT !.metrics = metrics, !.trends = trends.val],
                        <<"[OK] Calculated metric categories">>, << >>)
        ELSE NodeResult(s, <<"[ERROR] Error in metrics calculation">>, << >>)

\* Faulty variant of calculate_metrics_node (sensitivity of C29): the
\* metrics are stored as soon as they are computed, before the trends.
calculate_metrics_node_KeepsMetrics(s, residue) ==
    LET df      == s.financial_data
        metrics == calculate_all_metrics(df)
        trends  == identify_metric_trends(df, residue)
    IN  IF trends.ok
        THEN NodeResult([s EXCEPT !.metrics = metrics, !.trends = trends.val],
                        <<"[OK] Calculated metric categories">>, << >>)
        ELSE NodeResult([s EXCEPT !.error = <<"Metrics calculation failed: ", trends.exc>>,
                                  !.metrics = metrics],
                        <<"[ERROR] Error in metrics calculation">>, << >>)

calculate_metrics_node(s, residue) ==
    LET df      == s.financial_data
        metrics == calculate_all_metrics(df)
        trends  == identify_metric_trends(df, residue)
    IN  IF trends.ok
        THEN NodeResult([s EXCEPT !.metrics = metrics, !.trends = trends.val],
                        <<"[OK] Calculated metric categories">>, << >>)
        ELSE NodeResult([s EXCEPT !.error = <<"Metrics calculation failed: ", trends.exc>>],
                        <<"[ERROR] Error in metrics calculation">>, << >>)

FallbackInsights ==
    [key_takeaways   |-> JList(<<JStr(<<"Unable to generate AI insights">>)>>),
     strengths       |-> JList(<< >>),
     concerns        |-> JList(<< >>),
     recommendations |-> JList(<< >>),
     summary         |-> JStr(<<"Analysis pending due to AI service error">>)]

\* Faulty variant of generate_insights_node (sensitivity of C4): the except
\* branch installs the fallback insights but leaves state["error"] alone.
generate_insights_node_NoError(s, ai) ==
    LET parsed == IF ai.raises THEN Raise(ai.exc) ELSE parse_insights(ai.text)
        body   == IF ~parsed.ok THEN parsed
                  ELSE IF ~HasLen(Get(parsed.val, "key_takeaways", JList(<< >>)))
                  THEN Raise("TypeError")
                  ELSE parsed
    IN  IF body.ok
        THEN NodeResult([s EXCEPT !.insights = body.val],
                        <<"[OK] Generated key takeaways">>, <<ai>>)
        ELSE NodeResult([s EXCEPT !.insights = FallbackInsights],
                        <<"[ERROR] Error in insight generation">>, <<ai>>)

\* Faulty variant of generate_insights_node (sensitivity of C19): a call
\* that raises is made a second time before the stage gives up.
generate_insights_node_Retry(s, ai) ==
    LET parsed == IF ai.raises THEN Raise(ai.exc) ELSE parse_insights(ai.text)
        body   == IF ~parsed.ok THEN parsed
                  ELSE IF ~HasLen(Get(parsed.val, "key_takeaways", JList(<< >>)))
                  THEN Raise("TypeError")
                  ELSE parsed
        calls  == IF ai.raises THEN <<ai, ai>> ELSE <<ai>>
    IN  IF body.ok
        THEN NodeResult([s EXCEPT !.insights = body.val],
                        <<"[OK] Generated key takeaways">>, calls)
        ELSE NodeResult([s EXCEPT !.error = <<"Insight generation failed: ", body.exc>>,
                                  !.insights = FallbackInsights],
                        <<"[ERROR] Error in insight generation">>, calls)

generate_insights_node(s, ai) ==
    LET parsed == IF ai.raises THEN Raise(ai.exc) ELSE parse_insights(ai.text)
        \* len(insights.get('key_takeaways', [])) in the [OK] line
        body   == IF ~parsed.ok THEN parsed
                  ELSE IF ~HasLen(Get(parsed.val, "key_takeaways", JList(<< >>)))
                  THEN Raise("TypeError")
                  ELSE parsed
    IN  IF body.ok
        THEN NodeResult([s EXCEPT !.insights = body.val],
                        <<"[OK] Generated key takeaways">>, <<ai>>)
        ELSE NodeResult([s EXCEPT !.error = <<"Insight generation failed: ", body.exc>>,
                                  !.insights = FallbackInsights],
                        <<"[ERROR] Error in insight generation">>, <<ai>>)

\* Faulty variant of DedupByTitle (sensitivity of C9): the last entry of a
\* title is kept instead of the first.
DedupByTitle_KeepLast(all_risks) ==
    LET title(r) == Get(r, "title", None)
        Keep[i \in 0..Len(all_risks)] ==
            IF i = 0 THEN << >>
            ELSE IF \E j \in (i + 1)..Len(all_risks) :
                        title(all_risks[j]) = title(all_risks[i])
                 THEN Keep[i - 1]
                 ELSE Append(Keep[i - 1], all_risks[i])
    IN  Keep[Len(all_risks)]

\* Faulty variant of DedupByTitle (sensitivity of C11): the title is
\* compared with the entry just before it only, not with all seen titles.
DedupByTitle_AdjacentOnly(all_risks) ==
    LET title(r) == Get(r, "title", None)
        Keep[i \in 0..Len(all_risks)] ==
            IF i = 0 THEN << >>
            ELSE IF i > 1 /\ title(all_risks[i - 1]) = title(all_risks[i])
                 THEN Keep[i - 1]
                 ELSE Append(Keep[i - 1], all_risks[i])
    IN  Keep[Len(all_risks)]

\* the loop over all_risks: an entry is kept when its title was not seen
\* in an entry before it
DedupByTitle(all_risks) ==
    LET title(r) == Get(r, "title", None)
        Keep[i \in 0..Len(all_risks)] ==
            IF i = 0 THEN << >>
            ELSE IF \E j \in 1..(i - 1) : title(all_risks[j]) = title(all_risks[i])
                 THEN Keep[i - 1]
                 ELSE Append(Keep[i - 1], all_risks[i])
    IN  Keep[Len(all_risks)]

\* rule_based_risks + ai_risks and the loop: list + non-list is a
\* TypeError, risk.get on an entry that is no dict an AttributeError
MergeRisks(rule_based_risks, ai_risks) ==
    IF ai_risks.t # "list" THEN Raise("TypeError")
    ELSE IF \E i \in DOMAIN ai_risks.l : ai_risks.l[i].t # "dict"
    THEN Raise("AttributeError")
    ELSE Ok(DedupByTitle(rule_based_risks
                           \o [i \in DOMAIN ai_risks.l |-> ai_risks.l[i].d]))

\* Faulty variant of identify_risks_node (sensitivity of C27): the except
\* branch also puts the fallback insights in place of the stored ones.
identify_risks_node_ResetsInsights(s, ai) ==
    LET rule_based_risks == identify_risks(s.metrics)
        ai_risks == IF ai.raises THEN JList(<< >>) ELSE parse_risk_response(ai.text)
        warning  == IF ai.raises THEN <<"Warning: AI risk analysis failed">> ELSE << >>
        merged   == MergeRisks(rule_based_risks, ai_risks)
    IN  IF merged.ok
        THEN NodeResult([s EXCEPT !.risks = merged.val],
                        warning \o <<"[OK] Identified potential risks">>, <<ai>>)
        ELSE NodeResult([s EXCEPT !.error = <<"Risk identification failed: ", merged.exc>>,
                                  !.risks = << >>,
                                  !.insights = FallbackInsights],
                        warning \o <<"[ERROR] Error in risk identification">>, <<ai>>)

identify_risks_node(s, ai) ==
    LET rule_based_risks == identify_risks(s.metrics)
        ai_risks == IF ai.raises THEN JList(<< >>) ELSE parse_risk_response(ai.text)
        warning  == IF ai.raises THEN <<"Warning: AI risk analysis failed">> ELSE << >>
        merged   == MergeRisks(rule_based_risks, ai_risks)
    IN  IF merged.ok
        THEN NodeResult([s EXCEPT !.risks = merged.val],
                        warning \o <<"[OK] Identified potential risks">>, <<ai>>)
        ELSE NodeResult([s EXCEPT !.error = <<"Risk identification failed: ", merged.exc>>,
                                  !.risks = << >>],
                        warning \o <<"[ERROR] Error in risk identification">>, <<ai>>)

\* Faulty variant of create_charts_node (sensitivity of C7): a successful
\* run resets state["error"].
create_charts_node_ClearsError(s, charts) ==
    IF charts.ok
    THEN NodeResult([s EXCEPT !.charts_data = charts.val, !.error = << >>],
                    <<"[OK] Generated chart datasets">>, << >>)
    ELSE NodeResult([s EXCEPT !.error = <<"Chart generation failed: ", charts.exc>>,
                              !.charts_data = << >>],
                    <<"[ERROR] Error in chart generation">>, << >>)

\* generate_all_charts belongs to the chart collaborator (charts.py): the
\* node is given its outcome, the dict of chart datasets; the except branch
\* is the one the code holds for an exception out of it
create_charts_node(s, charts) ==
    IF charts.ok
    THEN NodeResult([s EXCEPT !.charts_data = charts.val],
                    <<"[OK] Generated chart datasets">>, << >>)
    ELSE NodeResult([s EXCEPT !.error = <<"Chart generation failed: ", charts.exc>>,
                              !.charts_data = << >>],
                    <<"[ERROR] Error in chart generation">>, << >>)

\* the loop over all_recommendations: kept when its lower-case form was
\* not seen before
DedupIgnoringCase(all) ==
    LET Keep[i \in 0..Len(all)] ==
            IF i = 0 THEN << >>
            ELSE IF \E j \in 1..(i - 1) : Lower(all[j]) = Lower(all[i])
                 THEN Keep[i - 1]
                 ELSE Append(Keep[i - 1], all[i])
    IN  Keep[Len(all)]

\* the merge with the recommendations of the insights: list + non-list is
\* a TypeError, rec.lower() on an entry that is no str an AttributeError
MergeRecommendations(recommendations, insight_recommendations) ==
    IF ~Truthy(insight_recommendations) THEN Ok(recommendations)
    ELSE IF insight_recommendations.t # "list" THEN Raise("TypeError")
    ELSE IF \E i \in DOMAIN insight_recommendations.l :
                insight_recommendations.l[i].t # "str"
    THEN Raise("AttributeError")
    ELSE Ok(Take(DedupIgnoringCase(
                   recommendations
                     \o [i \in DOMAIN insight_recommendations.l |->
                           insight_recommendations.l[i].s]), 7))

generate_recommendations_node(s) ==
    LET recommendations == generate_recommendations(s.metrics, s.risks, s.persona)
        insight_recommendations == Get(s.insights, "recommendations", JList(<< >>))
        merged == IF ~recommendations.ok THEN recommendations
                  ELSE MergeRecommendations(recommendations.val, insight_recommendations)
    IN  IF merged.ok
        THEN NodeResult([s EXCEPT !.recommendations = merged.val],
                        <<"[OK] Generated recommendations">>, << >>)
        ELSE NodeResult([s EXCEPT !.error = <<"Recommendation generation failed: ", merged.exc>>,
                                  !.recommendations = << >>],
                        <<"[ERROR] Error in recommendation generation">>, << >>)

\* build_workflow: the entry point and the edges of the graph
entry_point == "calculate_metrics"

\* Faulty variant of edges (sensitivity of C1): the edge out of
\* identify_risks skips create_charts.
edges_SkipCharts ==
    [calculate_metrics        |-> "generate_insights",
     generate_insights        |-> "identify_risks",
     identify_risks           |-> "generate_recommendations",
     create_charts            |-> "generate_recommendations",
     generate_recommendations |-> "END"]

edges ==
    [calculate_metrics        |-> "generate_insights",
     generate_insights        |-> "identify_risks",
     identify_risks           |-> "create_charts",
     create_charts            |-> "generate_recommendations",
     generate_recommendations |-> "END"]

\* Faulty variant of CorrectedPersona (sensitivity of C8): the warning is
\* printed but persona is not reassigned.
CorrectedPersona_Unchanged(p) == p

\* run_langgraph_analysis: the persona check
CorrectedPersona(p) == IF p \notin PERSONAS THEN "CFO" ELSE p

\* Faulty variant of initial_state (sensitivity of C18): the state is one
\* dict of the module, reused with what an earlier invocation left in it.
initial_state_Reused(df, who) ==
    [financial_data |-> df, persona |-> who, metrics |-> << >>, insights |-> << >>,
     risks |-> <<[category |-> "liquidity", severity |-> "high",
                  title |-> "Market Volatility"]>>,
     charts_data |-> << >>, recommendations |-> << >>, trends |-> << >>,
     error |-> <<"Insight generation failed: ", "APIError">>]

initial_state(df, who) ==
    [financial_data |-> df, persona |-> who, metrics |-> << >>, insights |-> << >>,
     risks |-> << >>, charts_data |-> << >>, recommendations |-> << >>,
     trends |-> << >>, error |-> << >>]

\* Faulty variant of FormatResponse (sensitivity of C2): the two branches
\* of the status expression are swapped.
FormatResponse_Swapped(final, who) ==
    [status  |-> IF final.error = << >> THEN "partial" ELSE "success",
     persona |-> who,
     metrics |-> final.metrics,
     insights |-> final.insights,
     risks |-> final.risks,
     charts_data |-> final.charts_data,
     recommendations |-> final.recommendations,
     trends |-> final.trends,
     error |-> final.error]

\* "Format response": the mapping returned after the workflow
FormatResponse(final, who) ==
    [status  |-> IF final.error = << >> THEN "success" ELSE "partial",
     persona |-> who,
     metrics |-> final.metrics,
     insights |-> final.insights,
     risks |-> final.risks,
     charts_data |-> final.charts_data,
     recommendations |-> final.recommendations,
     trends |-> final.trends,
     error |-> final.error]

\* the mapping returned by the except branch of run_langgraph_analysis
ErrorResponse(e, who) ==
    [status |-> "error", error |-> e, persona |-> who, metrics |-> << >>,
     insights |-> << >>, risks |-> << >>, charts_data |-> << >>,
     recommendations |-> << >>]

----------------------------------------------------------------------------
(* The inputs of a run.  Money amounts are in thousands.                   *)

\* create_sample_financial_data of backend/test_agent.py
SampleData ==
    [len |-> 4, str |-> {},
     num |-> [revenue              |-> <<1000, 1150, 1200, 1100>>,
              cost_of_goods_sold   |-> <<600, 690, 720, 700>>,
              operating_income     |-> <<250, 290, 300, 260>>,
              net_income           |-> <<180, 210, 220, 190>>,
              cash_from_operations |-> <<200, 230, 240, 210>>,
              capital_expenditures |-> <<50, 60, 55, 65>>,
              cash_and_equivalents |-> <<500, 520, 545, 550>>,
              current_assets       |-> <<800, 850, 900, 920>>,
              current_liabilities  |-> <<400, 420, 440, 460>>,
              total_assets         |-> <<2000, 2100, 2150, 2200>>,
              total_debt           |-> <<600, 580, 560, 540>>,
              total_equity         |-> <<1200, 1320, 1390, 1450>>,
              accounts_receivable  |-> <<150, 160, 170, 165>>,
              inventory            |-> <<100, 110, 115, 120>>,
              accounts_payable     |-> <<80, 85, 90, 95>>]]

\* a company in distress: every rule of identify_risks fires
DistressedData ==
    [len |-> 3, str |-> {},
     num |-> [revenue              |-> <<1000, 900, 700>>,
              cost_of_goods_sold   |-> <<600, 600, 600>>,
              net_income           |-> <<50, 10, -40>>,
              cash_from_operations |-> <<20, -10, -60>>,
              capital_expenditures |-> <<10, 10, 10>>,
              cash_and_equivalents |-> <<100, 60, 20>>,
              current_assets       |-> <<300, 250, 200>>,
              current_liabilities  |-> <<200, 220, 250>>,
              total_debt           |-> <<300, 320, 350>>,
              total_equity         |-> <<200, 180, 150>>]]

\* two periods of fast growth, too few for a trend
GrowingData ==
    [len |-> 2, str |-> {},
     num |-> [revenue              |-> <<1000, 1400>>,
              net_income           |-> <<100, 120>>,
              current_assets       |-> <<500, 560>>,
              current_liabilities  |-> <<400, 400>>]]

\* a single period
SinglePeriodData ==
    [len |-> 1, str |-> {},
     num |-> [revenue |-> <<1000>>, net_income |-> <<30>>,
              total_debt |-> <<80>>, total_equity |-> <<100>>]]

\* a revenue column that holds text
TextColumnData ==
    [len |-> 3, str |-> {"revenue"},
     num |-> [net_income |-> <<10, 20, 30>>,
              cost_of_goods_sold |-> <<5, 5, 5>>]]

DataFrames == {SampleData, DistressedData, GrowingData, SinglePeriodData, TextColumnData}

PersonaArguments == {"CFO", "Investor", "Board", "Analyst"}

Configs ==
    {[AI_PROVIDER |-> "openai", OPENAI_API_KEY |-> "sk-key", GEMINI_API_KEY |-> ""],
     [AI_PROVIDER |-> "openai", OPENAI_API_KEY |-> "", GEMINI_API_KEY |-> "g-key"],
     [AI_PROVIDER |-> "gemini", OPENAI_API_KEY |-> "", GEMINI_API_KEY |-> "g-key"],
     [AI_PROVIDER |-> "gemini", OPENAI_API_KEY |-> "sk-key", GEMINI_API_KEY |-> ""],
     [AI_PROVIDER |-> "azure", OPENAI_API_KEY |-> "sk-key", GEMINI_API_KEY |-> "g-key"]}

\* a response text that is nothing but prose
Text(json, obj) ==
    [json |-> json, obj |-> obj, lines |-> << >>, length |-> 0, first_paragraph |-> ""]

Answer(text) == [raises |-> FALSE, text |-> text]
Failure(e) == [raises |-> TRUE, exc |-> e]

\* the longest list of risks an AI response carries
MaxAIRisks == 2

\* the entries a "risks" array of the AI is made of
AIRiskEntries ==
    {JDict([category |-> "growth", severity |-> "low", title |-> "Revenue Decline",
            description |-> "Sales are softening", mitigation |-> "Diversify"]),
     JDict([category |-> "liquidity", severity |-> "high", title |-> "Market Volatility",
            description |-> "Demand swings", mitigation |-> "Hedge"]),
     JDict([category |-> "liquidity", severity |-> "critical", title |-> "Market Volatility",
            description |-> "Funding markets are shut"]),
     JDict([category |-> "liquidity", severity |-> "high",
            description |-> "An untitled liquidity risk"]),
     JDict([category |-> "liquidity", severity |-> "high", title |-> "LOW CASH RUNWAY",
            description |-> "Cash lasts two months"]),
     JStr(<<"not a risk object">>)}

SeqsUpTo(S, n) == UNION {[1..k -> S] : k \in 0..n}

\* the answers of the AI collaborator to the risk-analysis prompt
AIRiskAnswers ==
    {Failure("APIError"),
     Answer(Text("none", << >>)),
     Answer(Text("invalid", << >>)),
     Answer(Text("object", [summary |-> JStr(<<"no risks key">>)])),
     Answer(Text("object", [risks |-> JStr(<<"none identified">>)]))}
    \cup {Answer(Text("object", [risks |-> JList(l)])) :
            l \in SeqsUpTo(AIRiskEntries, MaxAIRisks)}

\* the answers of the AI collaborator to the persona prompt
AIInsightAnswers ==
    {Failure("APIError"),
     Answer(Text("null", << >>)),
     Answer(Text("too_deep", << >>)),
     Answer(Text("object",
                 [key_takeaways   |-> JList(<<JStr(<<"Revenue fell 8% in Q4">>)>>),
                  strengths       |-> JList(<<JStr(<<"Solid liquidity">>)>>),
                  recommendations |-> JList(<<JStr(<<"Reduce cost">>),
                                              JStr(<<"REDUCE COST">>),
                                              JStr(<<"Grow sales">>),
                                              JStr(<<"Renegotiate debt">>)>>),
                  summary         |-> JStr(<<"A mixed quarter">>)])),
     Answer(Text("object", [key_takeaways |-> JNull,
                            recommendations |-> JList(<<JStr(<<"Grow sales">>)>>)])),
     Answer(Text("object", [recommendations |-> JStr(<<"Reduce cost">>)])),
     Answer(Text("object", [recommendations |->
                              JList(<<JStr(<<"Grow sales">>),
                                      JDict([action |-> "Reduce cost"])>>)])),
     Answer([json |-> "none", obj |-> << >>, length |-> 120,
             first_paragraph |-> "The company had a mixed quarter.",
             lines |-> <<[kw |-> "none", lead |-> FALSE, clen |-> 0,
                          text |-> "The company had a mixed quarter.", content |-> ""],
                         [kw |-> "recommendations", lead |-> FALSE, clen |-> 0,
                          text |-> "Recommendations:", content |-> ""],
                         [kw |-> "none", lead |-> TRUE, clen |-> 11,
                          text |-> "- Reduce cost", content |-> "Reduce cost"],
                         [kw |-> "none", lead |-> TRUE, clen |-> 10,
                          text |-> "- Grow sales", content |-> "Grow sales"]>>])}

\* the outcomes of generate_all_charts: each chart function catches its own
\* exceptions and returns its dataset or an error marker, so the dict of
\* the five always comes back
ChartOutcomes ==
    {Ok([revenue_trend       |-> [type |-> "line"],
         margin_analysis     |-> [type |-> "bar"],
         key_metrics         |-> [type |-> "bar"],
         cash_flow_waterfall |-> [type |-> "waterfall"],
         ratio_gauges        |-> [type |-> "gauge"]]),
     Ok([revenue_trend       |-> [error |-> "Revenue chart generation failed"],
         margin_analysis     |-> [error |-> "Margin chart generation failed"],
         key_metrics         |-> [type |-> "bar"],
         cash_flow_waterfall |-> [type |-> "waterfall"],
         ratio_gauges        |-> [type |-> "gauge"]])}

----------------------------------------------------------------------------
(* The run of one call of run_langgraph_analysis                           *)

\* generate_ai_response(prompt): the provider's answer, or the ValueError
\* of an unsupported provider
generate_ai_response(cfg, answer) ==
    IF cfg.AI_PROVIDER \in {"openai", "gemini"} THEN answer
    ELSE Failure("Unsupported AI provider")

Init ==
    /\ config \in Configs
    /\ financial_data \in DataFrames
    /\ persona_arg \in PersonaArguments
    /\ persona = persona_arg
    /\ pc = "call"
    /\ state = << >>
    /\ result = << >>
    /\ executed = << >>
    /\ ai_calls = << >>
    /\ log = << >>

\* run_langgraph_analysis up to app.ainvoke: the persona check,
\* config.validate(), build_workflow() and the initial state; an exception
\* goes to the except branch, which returns
Start ==
    /\ pc = "call"
    /\ persona' = CorrectedPersona(persona)
    /\ LET valid == validate(config)
       IN  IF valid.ok
           THEN /\ state' = initial_state(financial_data, persona')
                /\ pc' = entry_point
                /\ result' = result
           ELSE /\ result' = ErrorResponse(valid.exc, persona')
                /\ pc' = "returned"
                /\ state' = state
    /\ UNCHANGED <<config, financial_data, persona_arg, executed, ai_calls, log>>

\* app.ainvoke runs the node the graph is at and follows its edge
RunNode(name, r) ==
    /\ state' = r.state
    /\ pc' = edges[name]
    /\ executed' = Append(executed, name)
    /\ ai_calls' = ai_calls \o [i \in DOMAIN r.calls |->
                                  [node |-> name, answer |-> r.calls[i]]]
    /\ log' = log \o r.printed
    /\ UNCHANGED <<config, financial_data, persona_arg, persona, result>>

CalculateMetrics ==
    /\ pc = "calculate_metrics"
    /\ \E residue \in Residues(state.financial_data) :
          RunNode("calculate_metrics", calculate_metrics_node(state, residue))

GenerateInsights ==
    /\ pc = "generate_insights"
    /\ \E answer \in AIInsightAnswers :
          RunNode("generate_insights",
                  generate_insights_node(state, generate_ai_response(config, answer)))

IdentifyRisks ==
    /\ pc = "identify_risks"
    /\ \E answer \in AIRiskAnswers :
          RunNode("identify_risks",
                  identify_risks_node(state, generate_ai_response(config, answer)))

CreateCharts ==
    /\ pc = "create_charts"
    /\ \E charts \in ChartOutcomes :
          RunNode("create_charts", create_charts_node(state, charts))

GenerateRecommendations ==
    /\ pc = "generate_recommendations"
    /\ RunNode("generate_recommendations", generate_recommendations_node(state))

\* run_langgraph_analysis after app.ainvoke: the response is formatted
Return ==
    /\ pc = "END"
    /\ result' = FormatResponse(state, persona)
    /\ pc' = "returned"
    /\ UNCHANGED <<config, financial_data, persona_arg, persona, state,
                   executed, ai_calls, log>>

Next ==
    \/ Start
    \/ CalculateMetrics
    \/ GenerateInsights
    \/ IdentifyRisks
    \/ CreateCharts
    \/ GenerateRecommendations
    \/ Return

Spec == Init /\ [][Next]_vars

----------------------------------------------------------------------------
(* Vocabulary of the properties                                            *)

Stages ==
    <<"calculate_metrics", "generate_insights", "identify_risks", "create_charts",
      "generate_recommendations">>

\* the [ERROR] line a node prints in its except branch, and the prefix of
\* the message it stores in state["error"] there
ErrorLine ==
    [calculate_metrics        |-> "[ERROR] Error in metrics calculation",
     generate_insights        |-> "[ERROR] Error in insight generation",
     identify_risks           |-> "[ERROR] Error in risk identification",
     create_charts            |-> "[ERROR] Error in chart generation",
     generate_recommendations |-> "[ERROR] Error in recommendation generation"]

ErrorPrefix ==
    [calculate_metrics        |-> "Metrics calculation failed: ",
     generate_insights        |-> "Insight generation failed: ",
     identify_risks           |-> "Risk identification failed: ",
     create_charts            |-> "Chart generation failed: ",
     generate_recommendations |-> "Recommendation generation failed: "]

Printed(line) == \E i \in DOMAIN log : log[i] = line
Ran(node) == \E i \in DOMAIN executed : executed[i] = node
\* the node ran and ended in its except branch
Failed(node) == Printed(ErrorLine[node])
FailedStages == {k \in DOMAIN Stages : Failed(Stages[k])}
\* the node called the AI collaborator and the call raised
CallRaised(node) ==
    \E i \in DOMAIN ai_calls : ai_calls[i].node = node /\ ai_calls[i].answer.raises

\* the active provider's credential is absent, or the provider is not one
\* of the supported two
CredentialAbsent ==
    \/ config.AI_PROVIDER = "openai" /\ config.OPENAI_API_KEY = ""
    \/ config.AI_PROVIDER = "gemini" /\ config.GEMINI_API_KEY = ""
    \/ config.AI_PROVIDER \notin {"openai", "gemini"}

NineKeys ==
    {"status", "persona", "metrics", "insights", "risks", "charts_data",
     "recommendations", "trends", "error"}

----------------------------------------------------------------------------
(* C1: in every run whose configuration validates, the five stages          *)
(* calculate_metrics, generate_insights, identify_risks, create_charts,    *)
(* generate_recommendations run exactly once each, in that order, one at a *)
(* time, whichever of them fail: at every node the stages run so far are   *)
(* exactly the ones before it, and the workflow ends only with all five    *)
(* run.                                                                    *)
C1_FiveStagesInOrder ==
    /\ pc \in {"call", "END", "returned"} \cup {Stages[k] : k \in DOMAIN Stages}
    /\ pc = "call" => executed = << >>
    /\ \A k \in DOMAIN Stages : pc = Stages[k] => executed = SubSeq(Stages, 1, k - 1)
    /\ pc = "END" => executed = Stages
    /\ pc = "returned" => IF CredentialAbsent THEN executed = << >> ELSE executed = Stages

\* a run that ended with all five stages run, the first three having failed
C1_Witness ==
    /\ pc = "returned"
    /\ executed = Stages
    /\ FailedStages = {1, 2, 3}

(* C2: when the pipeline ran, the returned status is "success" exactly     *)
(* when no stage recorded a failure (error is the empty string) and        *)
(* "partial" exactly when at least one did; the returned error is          *)
(* state.error.                                                            *)
C2_StatusReflectsError ==
    (pc = "returned" /\ executed # << >>) =>
        /\ result.status \in {"success", "partial"}
        /\ result.status = "success" <=> FailedStages = {}
        /\ result.status = "partial" <=> FailedStages # {}
        /\ result.error = << >> <=> FailedStages = {}
        /\ result.error = state.error

\* a run in which only the risk stage failed, returned as partial
C2_Witness ==
    /\ pc = "returned"
    /\ FailedStages = {3}
    /\ result.status = "partial"

(* C3: run_langgraph_analysis never raises; if the metrics stage fails     *)
(* internally the result has status "partial", a non-empty error and all   *)
(* of metrics, insights, risks, charts_data, recommendations and trends,   *)
(* with metrics and trends at their empty defaults, and the later four     *)
(* stages run on those defaults.                                           *)
C3_MetricsFailureContained ==
    Failed("calculate_metrics") =>
        /\ state.metrics = << >>
        /\ state.trends = << >>
        /\ state.error # << >>
        /\ pc = "returned" =>
              /\ executed = Stages
              /\ result.status = "partial"
              /\ result.error # << >>
              /\ NineKeys \subseteq DOMAIN result
              /\ result.metrics = << >>
              /\ result.trends = << >>
              /\ DOMAIN result.insights # {}

\* a run on a text column, returned as partial
C3_Witness ==
    /\ pc = "returned"
    /\ Failed("calculate_metrics")
    /\ result.status = "partial"
    /\ IsStr(financial_data, "revenue")

(* C4 as stated: whenever a call to the AI collaborator raises, in the     *)
(* insights stage or in the risk stage, the failure is recorded into       *)
(* state.error, the final status is "partial" and the remaining stages     *)
(* run.                                                                    *)
C4_EveryAIFailureRecorded ==
    (CallRaised("generate_insights") \/ CallRaised("identify_risks")) =>
        /\ state.error # << >>
        /\ pc = "returned" => (result.status = "partial" /\ executed = Stages)

(* C4, amended: a call that raises in the insights stage is recorded into  *)
(* state.error (the stage stores its fallback insights) and the final      *)
(* status is "partial"; a call that raises in the risk stage is only       *)
(* printed as a warning: the stage does not fail, stores the rule-based    *)
(* risks and leaves state.error alone, so that the final status is         *)
(* "partial" only if some stage failed.  In both cases the remaining       *)
(* stages run.                                                             *)
C4_AIFailureContained ==
    /\ CallRaised("generate_insights") =>
          /\ Failed("generate_insights")
          /\ state.error # << >>
          /\ state.insights = FallbackInsights
          /\ pc = "returned" => (result.status = "partial" /\ executed = Stages)
    /\ CallRaised("identify_risks") =>
          /\ Printed("Warning: AI risk analysis failed")
          /\ ~Failed("identify_risks")
          /\ state.risks = identify_risks(state.metrics)
          /\ pc = "returned" =>
                /\ executed = Stages
                /\ result.status = "partial" <=> FailedStages # {}
                /\ result.status = "success" <=> FailedStages = {}

\* a run whose risk-analysis call raised and that is returned as a success
C4_Witness ==
    /\ pc = "returned"
    /\ CallRaised("identify_risks")
    /\ result.status = "success"
    /\ result.error = << >>

(* C5 as stated: every result returned by run_langgraph_analysis, for      *)
(* every status including "error", contains all nine keys status, persona, *)
(* metrics, insights, risks, charts_data, recommendations, trends and      *)
(* error.                                                                  *)
C5_AllNineKeys ==
    pc = "returned" => DOMAIN result = NineKeys

(* C6: if the active provider's credential is absent (or the provider is   *)
(* not a supported one), the call returns status "error" with a non-empty  *)
(* error and empty metrics, insights, risks, charts_data and               *)
(* recommendations; no stage runs and no AI call is made.                  *)
C6_FailFastOnMissingCredential ==
    CredentialAbsent =>
        /\ pc \in {"call", "returned"}
        /\ executed = << >>
        /\ ai_calls = << >>
        /\ pc = "returned" =>
              /\ result.status = "error"
              /\ result.error # << >>
              /\ \A k \in {"metrics", "insights", "risks", "charts_data",
                           "recommendations"} : result[k] = << >>

\* a call under provider openai without its key (the other provider's key
\* is set), returned
C6_Witness ==
    /\ pc = "returned"
    /\ config.AI_PROVIDER = "openai"
    /\ config.OPENAI_API_KEY = ""
    /\ config.GEMINI_API_KEY # ""
    /\ result.status = "error"

(* C7: state.error holds only the most recent failure: it is empty while   *)
(* no stage has failed, otherwise it is the message of the failed stage    *)
(* that is last in pipeline order; and a stage that succeeds leaves        *)
(* state.error as it was.                                                  *)
C7_ErrorOfLastFailure ==
    state # << >> =>
        IF FailedStages = {} THEN state.error = << >>
        ELSE LET last == CHOOSE k \in FailedStages : \A j \in FailedStages : j <= k
             IN  /\ Len(state.error) = 2
                 /\ state.error[1] = ErrorPrefix[Stages[last]]

C7_SuccessKeepsError ==
    (/\ state # << >>
     /\ \A i \in (Len(log) + 1)..Len(log') :
           \A n \in DOMAIN ErrorLine : log'[i] # ErrorLine[n])
    => state'.error = state.error

C7_OnlyLastFailureRetained ==
    /\ []C7_ErrorOfLastFailure
    /\ [][C7_SuccessKeepsError]_vars

\* a run in which the metrics stage and the risk stage failed, the insights
\* stage between them and the two stages after them succeeded: the error is
\* the risk stage's
C7_Witness ==
    /\ pc = "returned"
    /\ FailedStages = {1, 3}
    /\ result.error[1] = "Risk identification failed: "

(* C8: a persona outside {CFO, Investor, Board} is never rejected: the run *)
(* proceeds as with persona CFO and the result's persona is "CFO"; a       *)
(* persona inside the set is used and returned unchanged.                  *)
C8_PersonaCorrected ==
    LET expected == IF persona_arg \in {"CFO", "Investor", "Board"}
                    THEN persona_arg ELSE "CFO"
    IN  /\ pc # "call" => persona = expected
        /\ state # << >> => state.persona = expected
        /\ pc = "returned" =>
              /\ result.persona = expected
              /\ result.status = "error" <=> CredentialAbsent

\* a run with a persona outside the set, returned as a success for CFO
C8_Witness ==
    /\ pc = "returned"
    /\ persona_arg = "Analyst"
    /\ result.persona = "CFO"
    /\ result.status = "success"
    /\ state.persona = "CFO"

\* what the risk stage merged, read back from the recorded run: the
\* rule-based risks of the stored metrics followed by the entries of the
\* AI response's "risks" array (none if the call raised, or if the array is
\* not a list of objects, in which case the stage fails and stores no risk)
RiskAnswer ==
    ai_calls[CHOOSE i \in DOMAIN ai_calls : ai_calls[i].node = "identify_risks"].answer

AISourcedRisks ==
    LET ai == IF RiskAnswer.raises THEN JList(<< >>)
              ELSE parse_risk_response(RiskAnswer.text)
    IN  IF ai.t = "list" /\ \A i \in DOMAIN ai.l : ai.l[i].t = "dict"
        THEN [i \in DOMAIN ai.l |-> ai.l[i].d]
        ELSE << >>

Concatenation == identify_risks(state.metrics) \o AISourcedRisks

TitleOf(risk) == Get(risk, "title", None)

\* the place in all_risks of the first entry that has the title
FirstOccurrence(all_risks, title) ==
    CHOOSE k \in DOMAIN all_risks :
        /\ TitleOf(all_risks[k]) = title
        /\ \A j \in 1..(k - 1) : TitleOf(all_risks[j]) # title

(* C9: in the risk list stored by the risk stage no two entries have the   *)
(* same title; every stored entry is the first entry with its title in the *)
(* concatenation rule-based ++ AI-sourced, in the concatenation's order;   *)
(* so an entry with the title of a rule-based risk is that rule-based      *)
(* risk, with all of its fields; and when the stage did not fail every     *)
(* title of the concatenation has its entry in the list.                   *)
C9_FirstOccurrenceWins ==
    Ran("identify_risks") =>
        LET risks == state.risks
            rule_based == identify_risks(state.metrics)
            all_risks == Concatenation
            first == [i \in DOMAIN risks |->
                        IF \E k \in DOMAIN all_risks :
                              TitleOf(all_risks[k]) = TitleOf(risks[i])
                        THEN FirstOccurrence(all_risks, TitleOf(risks[i]))
                        ELSE 0]
        IN  /\ \A i, j \in DOMAIN risks :
                  i # j => TitleOf(risks[i]) # TitleOf(risks[j])
            /\ \A i \in DOMAIN risks :
                  /\ first[i] # 0
                  /\ risks[i] = all_risks[first[i]]
            /\ \A i, j \in DOMAIN risks : i < j => first[i] < first[j]
            /\ \A i \in DOMAIN risks : \A k \in DOMAIN rule_based :
                  TitleOf(risks[i]) = TitleOf(rule_based[k])
                      => /\ risks[i] = rule_based[k]
                         /\ "metric_value" \in DOMAIN risks[i]
            /\ ~Failed("identify_risks") =>
                  \A k \in DOMAIN all_risks : \E i \in DOMAIN risks :
                      TitleOf(risks[i]) = TitleOf(all_risks[k])

\* the rule-based risk "Revenue Decline" met an AI-sourced risk of the same
\* title (severity low, with a mitigation), and the stored list holds the
\* rule-based one
C9_Witness ==
    /\ Ran("identify_risks")
    /\ ~Failed("identify_risks")
    /\ \E k \in DOMAIN AISourcedRisks :
          /\ TitleOf(AISourcedRisks[k]) = "Revenue Decline"
          /\ "mitigation" \in DOMAIN AISourcedRisks[k]
    /\ \E i \in DOMAIN state.risks :
          /\ TitleOf(state.risks[i]) = "Revenue Decline"
          /\ "metric_value" \in DOMAIN state.risks[i]
          /\ "mitigation" \notin DOMAIN state.risks[i]

(* C10 as stated: the risk list produced by the risk stage, after the      *)
(* rule-based and the AI-sourced risks are merged, is ordered by severity, *)
(* high before medium before low before any unrecognized severity, entries *)
(* of equal severity in their order of the merged list, for every AI       *)
(* response.                                                               *)
C10_MergedRisksSortedBySeverity ==
    Ran("identify_risks") =>
        LET rank(risk) == Get(severity_order, Get(risk, "severity", None), 3)
        IN  \A i, j \in DOMAIN state.risks :
                i < j => rank(state.risks[i]) <= rank(state.risks[j])

----------------------------------------------------------------------------
(* Calls of one function on arguments drawn from a bounded set.  The       *)
(* arguments are held in state under the names of the parameters, the      *)
(* returned value in result; pc is "call" before the call and "returned"   *)
(* after it.  The variables of the pipeline's run that the function does   *)
(* not touch stay as they are.                                             *)

OutsideARun ==
    /\ config = [AI_PROVIDER |-> "openai", OPENAI_API_KEY |-> "sk-key",
                 GEMINI_API_KEY |-> ""]
    /\ financial_data = SampleData
    /\ persona_arg = "CFO"
    /\ persona = "CFO"
    /\ executed = << >>
    /\ ai_calls = << >>
    /\ log = << >>

\* the function returns
Returns(value) ==
    /\ pc = "call"
    /\ result' = value
    /\ pc' = "returned"
    /\ UNCHANGED <<config, financial_data, persona_arg, persona, state,
                   executed, ai_calls, log>>

\* the longest list all_risks the dedup loop is given
MaxAllRisks == 3

\* the entries of all_risks: a rule-based risk and the objects of an AI
\* response, two titles met twice and one entry without a title
AllRisksEntries ==
    {Risk("growth", "medium", "Revenue Decline",
          "Revenue is declining at {growth_rate}% year-over-year",
          "Revenue growth: {growth_rate}%",
          "Reduced profitability and potential market share loss", -833)}
    \cup {e.d : e \in {x \in AIRiskEntries : x.t = "dict"}}

InitDedup ==
    /\ OutsideARun
    /\ pc = "call"
    /\ state \in {[all_risks |-> l] : l \in SeqsUpTo(AllRisksEntries, MaxAllRisks)}
    /\ result = << >>

\* the dedup loop of identify_risks_node on all_risks
Dedup == Returns(DedupByTitle(state.all_risks))

SpecDedup == InitDedup /\ [][Dedup]_vars

(* C11: the title deduplication of risks is idempotent: for every list L,  *)
(* dedup(dedup(L)) = dedup(L); and merging a deduplicated list with itself *)
(* gives it back, dedup(D ++ D) = D for D = dedup(L), same entries in the  *)
(* same order (so does merging L with itself: dedup(L ++ L) = dedup(L)).   *)
C11_DedupIdempotent ==
    pc = "returned" =>
        LET L == state.all_risks
            D == result
        IN  /\ DedupByTitle(D) = D
            /\ DedupByTitle(D \o D) = D
            /\ DedupByTitle(L \o L) = D

\* a list of three entries, two of them of one title, deduplicated to two
C11_Witness ==
    /\ pc = "returned"
    /\ Len(state.all_risks) = 3
    /\ Len(result) = 2
    /\ TitleOf(state.all_risks[1]) = TitleOf(state.all_risks[3])
    /\ DedupByTitle(result \o result) = result

\* what the recommendations stage merged, read back from the stored state
\* (no stage after the risk stage changes metrics, risks, persona or
\* insights): the rule-based list, and the strings of the insight result's
\* "recommendations" (none if it is empty or not a list of strings)
RuleBasedRecommendations ==
    LET r == generate_recommendations(state.metrics, state.risks, state.persona)
    IN  IF r.ok THEN r.val ELSE << >>

InsightRecommendations ==
    LET recs == Get(state.insights, "recommendations", JList(<< >>))
    IN  IF recs.t = "list" /\ \A i \in DOMAIN recs.l : recs.l[i].t = "str"
        THEN [i \in DOMAIN recs.l |-> recs.l[i].s]
        ELSE << >>

AllRecommendations == RuleBasedRecommendations \o InsightRecommendations

\* the place in all_recommendations of the first string equal to rec
\* ignoring case
FirstIgnoringCase(all_recommendations, rec) ==
    CHOOSE k \in DOMAIN all_recommendations :
        /\ Lower(all_recommendations[k]) = Lower(rec)
        /\ \A j \in 1..(k - 1) : Lower(all_recommendations[j]) # Lower(rec)

(* C12 as stated: the final recommendation list stored by the              *)
(* recommendations stage has no two strings equal ignoring case and keeps  *)
(* the first occurrence of each, in the order rule-based then AI-sourced,  *)
(* whether or not the insight result carries any recommendations.          *)
C12_NoDuplicateIgnoringCase ==
    Ran("generate_recommendations") =>
        LET recs == state.recommendations
            all_recommendations == AllRecommendations
            first == [i \in DOMAIN recs |->
                        IF \E k \in DOMAIN all_recommendations :
                              Lower(all_recommendations[k]) = Lower(recs[i])
                        THEN FirstIgnoringCase(all_recommendations, recs[i])
                        ELSE 0]
        IN  /\ \A i, j \in DOMAIN recs : i # j => Lower(recs[i]) # Lower(recs[j])
            /\ \A i \in DOMAIN recs :
                  /\ first[i] # 0
                  /\ recs[i] = all_recommendations[first[i]]
            /\ \A i, j \in DOMAIN recs : i < j => first[i] < first[j]

\* the outputs of the rules of generate_recommendations in evaluation
\* order, before the limit: one turn of the loop per stored risk, then the
\* rules that read the metrics
RuleOutputs ==
    LET turns == [i \in DOMAIN state.risks |->
                    RiskRecommendation(state.risks[i], state.persona)]
        Collect[i \in 0..Len(state.risks)] ==
            IF i = 0 THEN << >>
            ELSE Collect[i - 1] \o (IF turns[i].ok THEN turns[i].val ELSE << >>)
    IN  Collect[Len(state.risks)]
          \o PerformanceRecommendations(state.metrics, state.persona)

(* C13: the rule-based recommendation list is the first 5 of the rules'    *)
(* outputs in evaluation order, never more; the final list never has more  *)
(* than 7 entries; and in it every retained rule-based recommendation      *)
(* stands before every AI-sourced one.                                     *)
C13_FiveThenSeven ==
    (Ran("generate_recommendations") /\ ~Failed("generate_recommendations")) =>
        LET rule_based == RuleBasedRecommendations
            final == state.recommendations
            IsRuleBased(rec) == \E k \in DOMAIN rule_based : rule_based[k] = rec
        IN  /\ Len(rule_based) <= 5
            /\ Len(rule_based) = IF Len(RuleOutputs) < 5 THEN Len(RuleOutputs) ELSE 5
            /\ \A k \in DOMAIN rule_based : rule_based[k] = RuleOutputs[k]
            /\ Len(final) <= 7
            /\ \A i, j \in DOMAIN final :
                  (i < j /\ IsRuleBased(final[j])) => IsRuleBased(final[i])
            /\ \A i \in DOMAIN final :
                  ~IsRuleBased(final[i]) =>
                      \E k \in DOMAIN InsightRecommendations :
                          InsightRecommendations[k] = final[i]

\* six rule outputs cut to five, and five rule-based recommendations with
\* three more from the insights cut to seven
C13_Witness ==
    /\ pc = "returned"
    /\ result.status = "success"
    /\ Len(RuleOutputs) = 6
    /\ Len(RuleBasedRecommendations) = 5
    /\ Len(InsightRecommendations) = 4
    /\ Len(result.recommendations) = 7
    /\ result.recommendations[5] = RuleOutputs[5]
    /\ result.recommendations[6] = <<"Reduce cost">>
    /\ result.recommendations[7] = <<"Grow sales">>
    /\ InsightRecommendations[4] = <<"Renegotiate debt">>

----------------------------------------------------------------------------
(* identify_risks called on the metrics calculate_all_metrics can return:  *)
(* every category a sub-map with some of its fields, or an error marker.   *)

\* a sub-map with the key or without it
Optional(key, values) == {<< >>} \cup {key :> v : v \in values}

\* the values of each field the rules read, around the rule's bounds
GrowthRates      == {-1001, -1000, -999, -833, -501, -500, -499, 0}
MarginTrends     == {-301, -300, -299}
NetMargins       == {499, 500}
OperatingFlows   == {-1, 0}
RunwayMonths     == {590, 600}
CurrentRatios    == {100, 101, 149, 150, 200}
DebtToEquities   == {70, 71, 149, 150}

RevenueMetrics ==
    {ErrorMarker(<<"Growth calculation failed: ", "TypeError">>),
     [current_value |-> 100000, growth_rate |-> 0, growth_amount |-> 0,
      error |-> <<"Insufficient data for growth calculation">>]}
    \cup {[growth_rate |-> g] : g \in GrowthRates}

Margins ==
    {ErrorMarker(<<"Margin calculation failed: ", "TypeError">>)}
    \cup {a @@ b : a \in Optional("margin_trend", MarginTrends),
                   b \in Optional("net_margin", NetMargins)}

CashFlows ==
    {ErrorMarker(<<"Cash flow calculation failed: ", "TypeError">>)}
    \cup {a @@ b : a \in Optional("operating_cash_flow", OperatingFlows),
                   b \in Optional("runway_months", RunwayMonths)}

FinancialRatios ==
    {ErrorMarker(<<"Ratio calculation failed: ", "TypeError">>)}
    \cup {a @@ b : a \in Optional("current_ratio", CurrentRatios),
                   b \in Optional("debt_to_equity", DebtToEquities)}

MetricsOfRules ==
    {[revenue_metrics |-> rev, margins |-> margins, cash_flow |-> cf,
      financial_ratios |-> ratios] :
        rev \in RevenueMetrics, margins \in Margins, cf \in CashFlows,
        ratios \in FinancialRatios}

InitIdentifyRisks ==
    /\ OutsideARun
    /\ pc = "call"
    /\ state \in {[metrics |-> m] : m \in MetricsOfRules}
    /\ result = << >>

IdentifyRisksCall == Returns(identify_risks(state.metrics))

SpecIdentifyRisks == InitIdentifyRisks /\ [][IdentifyRisksCall]_vars

\* the returned risks that carry the title
Titled(title) == SelectSeq(result, LAMBDA risk : risk["title"] = title)

\* the sub-map has the field
HasField(category, field) == field \in DOMAIN state.metrics[category]

(* C14: with the threshold -5.0, identify_risks emits one risk titled       *)
(* "Revenue Decline", of category growth, exactly when revenue_metrics has *)
(* a growth_rate below -5.0, of severity high exactly when the growth_rate *)
(* is below -10 and medium otherwise: -8.33 gives one of severity medium,  *)
(* -5.0 gives none, -10 gives one of severity medium.                      *)
C14_RevenueDeclineRule ==
    pc = "returned" =>
        LET rev == state.metrics["revenue_metrics"]
            fires == HasField("revenue_metrics", "growth_rate")
                       /\ rev["growth_rate"] < -500
            emitted == Titled("Revenue Decline")
        IN  /\ Len(emitted) = IF fires THEN 1 ELSE 0
            /\ fires =>
                  /\ emitted[1]["category"] = "growth"
                  /\ emitted[1]["metric_value"] = rev["growth_rate"]
                  /\ emitted[1]["severity"] = "high" <=> rev["growth_rate"] < -1000
                  /\ emitted[1]["severity"] = "medium" <=> rev["growth_rate"] >= -1000

\* growth_rate -8.33: one Revenue Decline risk, of severity medium
C14_Witness ==
    /\ pc = "returned"
    /\ HasField("revenue_metrics", "growth_rate")
    /\ state.metrics["revenue_metrics"]["growth_rate"] = -833
    /\ Len(Titled("Revenue Decline")) = 1
    /\ Titled("Revenue Decline")[1]["severity"] = "medium"

(* C15: with the threshold 1.5, identify_risks emits the low-liquidity risk *)
(* exactly when current_ratio is present and below 1.5, of severity high   *)
(* exactly when current_ratio <= 1.0 and medium when it is between 1.0 and *)
(* 1.5; a current_ratio of 2.0, or of exactly 1.5, emits none.             *)
C15_LowLiquidityRule ==
    pc = "returned" =>
        LET ratios == state.metrics["financial_ratios"]
            fires == HasField("financial_ratios", "current_ratio")
                       /\ ratios["current_ratio"] < 150
            emitted == Titled("Low Liquidity Ratio")
        IN  /\ Len(emitted) = IF fires THEN 1 ELSE 0
            /\ fires =>
                  /\ emitted[1]["category"] = "liquidity"
                  /\ emitted[1]["metric_value"] = ratios["current_ratio"]
                  /\ emitted[1]["severity"] = "high" <=> ratios["current_ratio"] <= 100
                  /\ emitted[1]["severity"] = "medium" <=> ratios["current_ratio"] > 100

\* current_ratio exactly 1.0: the low-liquidity risk, of severity high
C15_Witness ==
    /\ pc = "returned"
    /\ HasField("financial_ratios", "current_ratio")
    /\ state.metrics["financial_ratios"]["current_ratio"] = 100
    /\ Len(Titled("Low Liquidity Ratio")) = 1
    /\ Titled("Low Liquidity Ratio")[1]["severity"] = "high"

\* one rule of identify_risks: the title is emitted once, with the
\* category, the severity and the field's value, exactly when it fires
RuleHolds(title, category, field_category, field, fires, severity) ==
    LET emitted == Titled(title)
    IN  /\ Len(emitted) = IF HasField(field_category, field) /\ fires THEN 1 ELSE 0
        /\ Len(emitted) = 1 =>
              /\ emitted[1]["category"] = category
              /\ emitted[1]["severity"] = severity
              /\ emitted[1]["metric_value"] = state.metrics[field_category][field]

(* C16: each remaining rule of identify_risks fires on its own condition,  *)
(* whatever the other rules do, and is skipped when its field is absent:   *)
(* Margin Compression (medium) iff margin_trend < -3.0, Low Net Margin     *)
(* (medium) iff net_margin < 5, Negative Operating Cash Flow (high) iff    *)
(* operating_cash_flow < 0, Low Cash Runway (high) iff runway_months < 6,  *)
(* High Leverage iff debt_to_equity > 0.7, of severity high iff            *)
(* debt_to_equity >= 1.5 and medium otherwise.                             *)
C16_RemainingRules ==
    pc = "returned" =>
        LET margins == state.metrics["margins"]
            cf      == state.metrics["cash_flow"]
            ratios  == state.metrics["financial_ratios"]
        IN  /\ RuleHolds("Margin Compression", "profitability", "margins", "margin_trend",
                         margins["margin_trend"] < -300, "medium")
            /\ RuleHolds("Low Net Margin", "profitability", "margins", "net_margin",
                         margins["net_margin"] < 500, "medium")
            /\ RuleHolds("Negative Operating Cash Flow", "liquidity", "cash_flow",
                         "operating_cash_flow", cf["operating_cash_flow"] < 0, "high")
            /\ RuleHolds("Low Cash Runway", "liquidity", "cash_flow", "runway_months",
                         cf["runway_months"] < 600, "high")
            /\ RuleHolds("High Leverage", "leverage", "financial_ratios", "debt_to_equity",
                         ratios["debt_to_equity"] > 70,
                         IF ratios["debt_to_equity"] >= 150 THEN "high" ELSE "medium")
            /\ Len(result) = Len(Titled("Revenue Decline")) + Len(Titled("Margin Compression"))
                               + Len(Titled("Low Net Margin"))
                               + Len(Titled("Negative Operating Cash Flow"))
                               + Len(Titled("Low Cash Runway"))
                               + Len(Titled("Low Liquidity Ratio"))
                               + Len(Titled("High Leverage"))

\* the leverage rule fires alone, at debt_to_equity exactly 1.5, with the
\* other fields present and at their bounds
C16_Witness ==
    /\ pc = "returned"
    /\ HasField("financial_ratios", "debt_to_equity")
    /\ state.metrics["financial_ratios"]["debt_to_equity"] = 150
    /\ HasField("margins", "margin_trend") /\ HasField("margins", "net_margin")
    /\ HasField("cash_flow", "operating_cash_flow") /\ HasField("cash_flow", "runway_months")
    /\ Len(result) = 1
    /\ result[1]["title"] = "High Leverage"
    /\ result[1]["severity"] = "high"

----------------------------------------------------------------------------
(* generate_recommendations called on metrics, a list of risks and a       *)
(* persona.                                                                *)

\* the longest list of risks generate_recommendations is given
MaxRisks == 2

Severities == {"high", "medium", "low", "critical"}
Categories == {"liquidity", "profitability", "growth", "leverage", "operational", "market"}

\* a risk of every severity and category, and a second title for the two
\* categories that have a recommendation
RisksOfRecommendations ==
    {[category |-> c, severity |-> sev, title |-> "Market Volatility"] :
        c \in Categories, sev \in Severities}
    \cup {[category |-> "liquidity", severity |-> "high", title |-> "Low Cash Runway"],
          [category |-> "growth", severity |-> "high", title |-> "Revenue Decline"]}

\* no metrics, metrics under every bound of the performance rules, and
\* metrics of fast growth
MetricsOfRecommendations ==
    {<< >>,
     [margins |-> [net_margin |-> 999], cash_flow |-> [free_cash_flow |-> -1],
      revenue_metrics |-> [growth_rate |-> 499]],
     [margins |-> [net_margin |-> 1000], cash_flow |-> [free_cash_flow |-> 0],
      revenue_metrics |-> [growth_rate |-> 3001]]}

InitGenerateRecommendations ==
    /\ OutsideARun
    /\ pc = "call"
    /\ state \in {[metrics |-> m, risks |-> r, persona |-> who] :
                    m \in MetricsOfRecommendations,
                    r \in SeqsUpTo(RisksOfRecommendations, MaxRisks),
                    who \in PERSONAS}
    /\ result = << >>

GenerateRecommendationsCall ==
    Returns(generate_recommendations(state.metrics, state.risks, state.persona))

SpecGenerateRecommendations ==
    InitGenerateRecommendations /\ [][GenerateRecommendationsCall]_vars

\* the first words of the recommendation of a risk of the category for the
\* persona, None if there is none
RiskWords(category, who) ==
    IF category = "liquidity" /\ who = "CFO" THEN "URGENT: "
    ELSE IF category = "liquidity" /\ who = "Board" THEN "Strategic Action Required: "
    ELSE IF category = "growth" /\ who = "Investor" THEN "Growth Concern: "
    ELSE None

(* C17: in generate_recommendations a risk contributes a recommendation    *)
(* only if its severity is "high" and (category, persona) is (liquidity,   *)
(* CFO), (liquidity, Board) or (growth, Investor); each such risk          *)
(* contributes exactly one, in the order of the risk list (as far as the   *)
(* limit of five lets them in), and every other combination contributes    *)
(* none.                                                                   *)
C17_RiskRecommendations ==
    pc = "returned" =>
        LET who == state.persona
            contributing == SelectSeq(state.risks, LAMBDA risk :
                                risk["severity"] = "high"
                                  /\ RiskWords(risk["category"], who) # None)
            from_risks == SelectSeq(result.val, LAMBDA rec :
                              rec[1] \in {"URGENT: ", "Strategic Action Required: ",
                                          "Growth Concern: "})
        IN  /\ result.ok
            /\ Len(from_risks) = IF Len(contributing) < 5 THEN Len(contributing) ELSE 5
            /\ \A k \in DOMAIN from_risks :
                  /\ from_risks[k] = result.val[k]
                  /\ from_risks[k][1] = RiskWords(contributing[k]["category"], who)
                  /\ from_risks[k][2] = contributing[k]["title"]

\* two high liquidity risks for the Board: two recommendations, in the
\* order of the risks
C17_Witness ==
    /\ pc = "returned"
    /\ state.persona = "Board"
    /\ Len(state.risks) = 2
    /\ state.risks[1]["title"] = "Low Cash Runway"
    /\ state.risks[2]["title"] = "Market Volatility"
    /\ Len(result.val) = 2
    /\ result.val[1][2] = "Low Cash Runway"
    /\ result.val[2][1] = "Strategic Action Required: "
    /\ result.val[2][2] = "Market Volatility"

----------------------------------------------------------------------------
(* Two invocations of run_langgraph_analysis in flight at once (two        *)
(* requests awaiting the pipeline): every variable of a run but config is  *)
(* a function of the invocation; config is the one object of the module.  *)
(* A step is one step of one invocation, in any interleaving.              *)

Invocations == {1, 2}

ConcurrentInsightAnswers ==
    {Failure("APIError"),
     Answer(Text("object", [key_takeaways   |-> JList(<<JStr(<<"Revenue fell 8% in Q4">>)>>),
                            recommendations |-> JList(<<JStr(<<"Reduce cost">>)>>)]))}

ConcurrentRiskAnswers ==
    {Answer(Text("object", [risks |-> JStr(<<"none identified">>)])),
     Answer(Text("object", [risks |-> JList(<<JDict([category |-> "liquidity",
                                                      severity |-> "high",
                                                      title |-> "Market Volatility"])>>)]))}

InitConcurrent ==
    /\ config \in {c \in Configs : c.AI_PROVIDER = "openai"}
    /\ financial_data \in [Invocations -> {SampleData, SinglePeriodData}]
    /\ persona_arg \in [Invocations -> {"Investor", "Analyst"}]
    /\ persona = persona_arg
    /\ pc = [i \in Invocations |-> "call"]
    /\ state = [i \in Invocations |-> << >>]
    /\ result = [i \in Invocations |-> << >>]
    /\ executed = [i \in Invocations |-> << >>]
    /\ ai_calls = [i \in Invocations |-> << >>]
    /\ log = [i \in Invocations |-> << >>]

StartOf(i) ==
    /\ pc[i] = "call"
    /\ LET who   == CorrectedPersona(persona[i])
           valid == validate(config)
       IN  /\ persona' = [persona EXCEPT ![i] = who]
           /\ IF valid.ok
              THEN /\ state' = [state EXCEPT ![i] = initial_state(financial_data[i], who)]
                   /\ pc' = [pc EXCEPT ![i] = entry_point]
                   /\ result' = result
              ELSE /\ result' = [result EXCEPT ![i] = ErrorResponse(valid.exc, who)]
                   /\ pc' = [pc EXCEPT ![i] = "returned"]
                   /\ state' = state
    /\ UNCHANGED <<config, financial_data, persona_arg, executed, ai_calls, log>>

RunNodeOf(i, name, r) ==
    /\ pc[i] = name
    /\ state' = [state EXCEPT ![i] = r.state]
    /\ pc' = [pc EXCEPT ![i] = edges[name]]
    /\ executed' = [executed EXCEPT ![i] = Append(@, name)]
    /\ ai_calls' = [ai_calls EXCEPT ![i] =
                      @ \o [k \in DOMAIN r.calls |-> [node |-> name, answer |-> r.calls[k]]]]
    /\ log' = [log EXCEPT ![i] = @ \o r.printed]
    /\ UNCHANGED <<config, financial_data, persona_arg, persona, result>>

CalculateMetricsOf(i) ==
    /\ pc[i] = "calculate_metrics"
    /\ \E residue \in Residues(state[i].financial_data) :
          RunNodeOf(i, "calculate_metrics", calculate_metrics_node(state[i], residue))

GenerateInsightsOf(i) ==
    \E answer \in ConcurrentInsightAnswers :
        RunNodeOf(i, "generate_insights",
                  generate_insights_node(state[i], generate_ai_response(config, answer)))

IdentifyRisksOf(i) ==
    \E answer \in ConcurrentRiskAnswers :
        RunNodeOf(i, "identify_risks",
                  identify_risks_node(state[i], generate_ai_response(config, answer)))

CreateChartsOf(i) ==
    \E charts \in ChartOutcomes :
        RunNodeOf(i, "create_charts", create_charts_node(state[i], charts))

GenerateRecommendationsOf(i) ==
    RunNodeOf(i, "generate_recommendations", generate_recommendations_node(state[i]))

ReturnOf(i) ==
    /\ pc[i] = "END"
    /\ result' = [result EXCEPT ![i] = FormatResponse(state[i], persona[i])]
    /\ pc' = [pc EXCEPT ![i] = "returned"]
    /\ UNCHANGED <<config, financial_data, persona_arg, persona, state,
                   executed, ai_calls, log>>

NextConcurrent ==
    \E i \in Invocations :
        \/ StartOf(i)
        \/ CalculateMetricsOf(i)
        \/ GenerateInsightsOf(i)
        \/ IdentifyRisksOf(i)
        \/ CreateChartsOf(i)
        \/ GenerateRecommendationsOf(i)
        \/ ReturnOf(i)

SpecConcurrent == InitConcurrent /\ [][NextConcurrent]_vars

\* the result of one invocation run alone, from the call to the return,
\* on the same inputs and with the same answers of the collaborators
\* (np.polyfit is a function of its arguments: on the same data it leaves
\* the same residue)
RunAlone(cfg, df, who_arg, residue, insight_answer, risk_answer, charts) ==
    LET who   == IF who_arg \in {"CFO", "Investor", "Board"} THEN who_arg ELSE "CFO"
        valid == validate(cfg)
        s0 == [financial_data |-> df, persona |-> who, metrics |-> << >>,
               insights |-> << >>, risks |-> << >>, charts_data |-> << >>,
               recommendations |-> << >>, trends |-> << >>, error |-> << >>]
        s1 == calculate_metrics_node(s0, residue).state
        s2 == generate_insights_node(s1, generate_ai_response(cfg, insight_answer)).state
        s3 == identify_risks_node(s2, generate_ai_response(cfg, risk_answer)).state
        s4 == create_charts_node(s3, charts).state
        s5 == generate_recommendations_node(s4).state
    IN  IF valid.ok THEN FormatResponse(s5, who) ELSE ErrorResponse(valid.exc, who)

\* the answer the node of invocation i got from the AI collaborator
AnswerTo(i, node) ==
    ai_calls[i][CHOOSE k \in DOMAIN ai_calls[i] : ai_calls[i][k].node = node].answer

\* each invocation starts on a state of its own, with its own inputs and
\* the empty defaults, and returns what it returns when run alone
C18_OwnStateOwnResult ==
    \A i \in Invocations :
        /\ pc[i] = entry_point =>
              /\ state[i].financial_data = financial_data[i]
              /\ state[i].persona = persona[i]
              /\ \A k \in {"metrics", "insights", "risks", "charts_data",
                           "recommendations", "trends", "error"} : state[i][k] = << >>
        /\ pc[i] = "returned" =>
              \E residue \in Residues(financial_data[i]) :
                  result[i] = IF executed[i] = << >>
                              THEN RunAlone(config, financial_data[i], persona_arg[i],
                                            residue, Failure("none"), Failure("none"),
                                            Ok(<< >>))
                              ELSE RunAlone(config, financial_data[i], persona_arg[i],
                                            residue,
                                            AnswerTo(i, "generate_insights"),
                                            AnswerTo(i, "identify_risks"),
                                            Ok(state[i].charts_data))

\* a step of one invocation leaves everything of the other as it was, and
\* no step writes the shared configuration
C18_StepsOfOneInvocation ==
    /\ config' = config
    /\ \A i, j \in Invocations :
          (i # j /\ pc'[j] # pc[j]) =>
              /\ pc'[i] = pc[i]
              /\ state'[i] = state[i]
              /\ result'[i] = result[i]
              /\ persona'[i] = persona[i]
              /\ executed'[i] = executed[i]
              /\ ai_calls'[i] = ai_calls[i]
              /\ financial_data'[i] = financial_data[i]

(* C18: two invocations running interleaved share no mutable state: each   *)
(* builds its own fresh state with empty defaults, no stage of one reads   *)
(* or writes a field of the other's state, the shared configuration is     *)
(* only read, and each invocation's result equals the result it produces   *)
(* when run alone on the same inputs and collaborator responses.           *)
C18_InvocationsIsolated ==
    /\ []C18_OwnStateOwnResult
    /\ [][C18_StepsOfOneInvocation]_vars

\* the first invocation has returned a success while the second, on other
\* data, is in the middle of its run with a failure recorded in its state
C18_Witness ==
    /\ pc[1] = "returned"
    /\ pc[2] = "identify_risks"
    /\ financial_data[1] # financial_data[2]
    /\ result[1].status = "success"
    /\ result[1].error = << >>
    /\ state[2].error # << >>
    /\ AnswerTo(1, "generate_insights") # AnswerTo(2, "generate_insights")

\* the calls of the AI collaborator made by the node, in the main run
CallsBy(node) == SelectSeq(ai_calls, LAMBDA call : call.node = node)

(* C19: within one invocation the AI collaborator is called at most once   *)
(* by the insights stage, at most once by the risk stage, and by no other  *)
(* stage; a call that fails is not made again, the stage goes on with its  *)
(* fallback value (the fixed fallback insights, no AI-sourced risks).      *)
C19_AtMostOneCallPerStage ==
    /\ Len(ai_calls) <= 2
    /\ Len(CallsBy("generate_insights")) <= 1
    /\ Len(CallsBy("identify_risks")) <= 1
    /\ \A k \in DOMAIN ai_calls :
          /\ ai_calls[k].node \in {"generate_insights", "identify_risks"}
          /\ Ran(ai_calls[k].node)
    /\ Len(ai_calls) = 2 => ai_calls[1].node = "generate_insights"
    /\ CallRaised("generate_insights") =>
          /\ Len(CallsBy("generate_insights")) = 1
          /\ state.insights = FallbackInsights
    /\ CallRaised("identify_risks") =>
          /\ Len(CallsBy("identify_risks")) = 1
          /\ state.risks = identify_risks(state.metrics)

\* a run in which both calls raised: two calls in all, the fallbacks stored
C19_Witness ==
    /\ pc = "returned"
    /\ CallRaised("generate_insights")
    /\ CallRaised("identify_risks")
    /\ Len(ai_calls) = 2
    /\ result.insights = FallbackInsights
    /\ executed = Stages

\* what the rules derive from each category of the metrics: the titles of
\* the risks of identify_risks and the opening words of the
\* recommendations of generate_recommendations that read its fields
DerivedFrom ==
    [revenue_metrics  |->
        [risks |-> {"Revenue Decline"},
         recommendations |-> {"Growth Strategy: Revenue growth below market expectations - Explore new revenue streams and market expansion opportunities",
                              "Scale Infrastructure: High growth rate - Ensure operational infrastructure can support continued rapid expansion"}],
     margins          |->
        [risks |-> {"Margin Compression", "Low Net Margin"},
         recommendations |-> {"Margin Improvement: Current net margin at "}],
     cash_flow        |->
        [risks |-> {"Negative Operating Cash Flow", "Low Cash Runway"},
         recommendations |-> {"Cash Flow Management: Negative FCF - Review capital expenditures and optimize working capital management"}],
     financial_ratios |->
        [risks |-> {"Low Liquidity Ratio", "High Leverage"},
         recommendations |-> {}]]

\* the categories of the stored metrics whose sub-map carries the marker
MarkedCategories ==
    {category \in DOMAIN DerivedFrom \cap DOMAIN state.metrics :
        "error" \in DOMAIN state.metrics[category]}

(* C20 as stated: a category sub-map of the metrics that contains "error"  *)
(* (the revenue metrics of a single-period series, for one) gives rise to  *)
(* no risk of identify_risks and to no recommendation of                   *)
(* generate_recommendations derived from that category, whatever the       *)
(* persona.                                                                *)
C20_ErrorMarkerChecked ==
    Ran("generate_recommendations") =>
        LET risks == identify_risks(state.metrics)
            recs  == RuleBasedRecommendations
        IN  \A category \in MarkedCategories :
               /\ \A i \in DOMAIN risks :
                     risks[i]["title"] \notin DerivedFrom[category].risks
               /\ \A i \in DOMAIN recs :
                     recs[i][1] \notin DerivedFrom[category].recommendations

----------------------------------------------------------------------------
(* calculate_margin called on its own *)

CalculateMarginCall == Returns(calculate_margin(state.df))

\* two periods; revenue absent, or 0 or not in each period; each of the
\* other columns absent or present, the latest income negative or not
InitCalculateMargin ==
    /\ OutsideARun
    /\ pc = "call"
    /\ state \in {[df |-> df] : df \in
          {[len |-> 2, str |-> {}, num |-> rev @@ cost @@ op @@ net] :
              rev  \in Optional("revenue", {<<0, 0>>, <<0, 500>>, <<400, 0>>, <<400, 500>>}),
              cost \in Optional("cost_of_goods_sold", {<<300, 300>>, <<300, 600>>}),
              op   \in Optional("operating_income", {<<50, -20>>, <<50, 75>>}),
              net  \in Optional("net_income", {<<30, -45>>, <<30, 40>>})}}
    /\ result = << >>

SpecCalculateMargin == InitCalculateMargin /\ [][CalculateMarginCall]_vars

(* C21 as stated: when the latest revenue is 0, each of gross_margin,      *)
(* operating_margin and net_margin whose columns are present is reported   *)
(* with the value 0, none is omitted, and calculate_margin gives neither   *)
(* an exception nor an error marker.                                       *)
C21_ZeroRevenueZeroMargins ==
    (/\ pc = "returned"
     /\ Has(state.df, "revenue")
     /\ Latest(state.df, "revenue") = 0) =>
        LET MarginColumns ==
                [gross_margin     |-> {"revenue", "cost_of_goods_sold"},
                 operating_margin |-> {"operating_income", "revenue"},
                 net_margin       |-> {"net_income", "revenue"}]
        IN
        /\ "error" \notin DOMAIN result
        /\ \A margin \in DOMAIN MarginColumns :
              MarginColumns[margin] \subseteq Columns(state.df) =>
                  /\ margin \in DOMAIN result
                  /\ result[margin] = 0

----------------------------------------------------------------------------
(* calculate_growth called on its own *)

CalculateGrowthCall == Returns(calculate_growth(state.df, state.column))

\* one to three periods of the two columns the pipeline passes, each value
\* negative, 0, or one of two so close that the growth from one to the
\* other is below half a hundredth of a percent; and a frame whose revenue
\* column holds text
InitCalculateGrowth ==
    /\ OutsideARun
    /\ pc = "call"
    /\ state \in {[df |-> df, column |-> column] :
                    df \in
          {[len |-> Len(v), str |-> {}, num |-> [revenue |-> v, net_income |-> v]] :
              v \in UNION {[1..n -> {-300, 0, 250, 30000, 30001}] : n \in 1..3}}
          \cup {[len |-> 2, str |-> {"revenue"}, num |-> [net_income |-> <<10, 20>>]]},
                    column \in {"revenue", "net_income", "operating_income"}}
    /\ result = << >>

SpecCalculateGrowth == InitCalculateGrowth /\ [][CalculateGrowthCall]_vars

(* C22: calculate_growth on at least 2 periods (periods = 1) takes the     *)
(* second-to-last value as previous; when previous is 0 the growth_rate is *)
(* 0 if current is 0 too and the infinite sentinel otherwise, for a        *)
(* positive and for a negative current alike; nothing is divided by zero   *)
(* and no error marker is returned.                                        *)
C22_ZeroPreviousGrowth ==
    (/\ pc = "returned"
     /\ Has(state.df, state.column)
     /\ ~IsStr(state.df, state.column)
     /\ state.df.len >= 2) =>
        LET current  == Latest(state.df, state.column)
            previous == Prev(state.df, state.column)
        IN  /\ "error" \notin DOMAIN result
            /\ result.previous_value = 100 * previous
            /\ result.current_value = 100 * current
            /\ previous = 0 =>
                  result.growth_rate = IF current = 0 THEN 0 ELSE Inf

\* previous 0 and a negative current: the sentinel is the positive one
C22_Witness ==
    /\ pc = "returned"
    /\ Has(state.df, state.column)
    /\ ~IsStr(state.df, state.column)
    /\ state.df.len = 3
    /\ Prev(state.df, state.column) = 0
    /\ Latest(state.df, state.column) < 0
    /\ state.df.num[state.column][1] # 0
    /\ result.growth_rate = Inf
    /\ "error" \notin DOMAIN result

(* C23 as stated: the trend label calculate_growth returns agrees with the *)
(* sign of the growth_rate it returns, the one rounded to 2 decimals:      *)
(* "increasing" exactly when it is above 0, "decreasing" exactly when it   *)
(* is below 0, "stable" exactly when it is 0.                              *)
C23_TrendAgreesWithReportedRate ==
    (/\ pc = "returned"
     /\ Has(state.df, state.column)
     /\ ~IsStr(state.df, state.column)
     /\ state.df.len >= 2) =>
        /\ result.trend = "increasing" <=> result.growth_rate > 0
        /\ result.trend = "decreasing" <=> result.growth_rate < 0
        /\ result.trend = "stable" <=> result.growth_rate = 0

----------------------------------------------------------------------------
(* identify_metric_trends called on its own *)

\* the call returns its dict, or raises
IdentifyMetricTrendsCall ==
    \E residue \in Residues(state.df) :
        Returns(identify_metric_trends(state.df, residue))

\* one to four periods of a key metric, of two key metrics, or of a column
\* that is no key metric
InitIdentifyMetricTrends ==
    /\ OutsideARun
    /\ pc = "call"
    /\ state \in {[df |-> df] : df \in
          UNION {{[len |-> Len(v), str |-> {}, num |-> "revenue" :> v],
                  [len |-> Len(v), str |-> {},
                   num |-> ("net_income" :> v) @@ ("cash_from_operations" :> v)],
                  [len |-> Len(v), str |-> {}, num |-> "total_debt" :> v]} :
                 v \in UNION {[1..n -> {-5, 5, 9}] : n \in 1..4}}}
    /\ result = << >>

SpecIdentifyMetricTrends == InitIdentifyMetricTrends /\ [][IdentifyMetricTrendsCall]_vars

(* C24 as stated: identify_metric_trends returns an entry for a key metric *)
(* exactly when its column is present and the series has at least 3        *)
(* periods, never for a shorter series; the label is "upward", "downward"  *)
(* or "stable" by the sign of the least-squares slope over the last 3      *)
(* values, which is the sign of the last value minus the value two periods *)
(* earlier.                                                                *)
C24_TrendBySignOfDifference ==
    pc = "returned" =>
        LET df == state.df
        IN  /\ result.ok
            /\ DOMAIN result.val = {m \in key_metrics : Has(df, m) /\ df.len >= 3}
            /\ \A m \in DOMAIN result.val :
                  LET difference == df.num[m][df.len] - df.num[m][df.len - 2]
                  IN  result.val[m] = IF difference > 0 THEN "upward"
                                      ELSE IF difference < 0 THEN "downward"
                                      ELSE "stable"

----------------------------------------------------------------------------
(* parse_unstructured_insights called on its own *)

\* two headings, items of 9, 10 and 11 characters, and a line of prose
TextLines ==
    {[kw |-> "recommendations", lead |-> FALSE, clen |-> 0,
      text |-> "Recommendations:", content |-> ""],
     [kw |-> "key_takeaways", lead |-> FALSE, clen |-> 0,
      text |-> "Key takeaways", content |-> ""],
     [kw |-> "none", lead |-> TRUE, clen |-> 9,
      text |-> "- Cut costs", content |-> "Cut costs"],
     [kw |-> "none", lead |-> TRUE, clen |-> 10,
      text |-> "- Grow sales", content |-> "Grow sales"],
     [kw |-> "none", lead |-> TRUE, clen |-> 11,
      text |-> "* Reduce cost", content |-> "Reduce cost"],
     [kw |-> "none", lead |-> FALSE, clen |-> 0,
      text |-> "Reduce cost", content |-> ""]}

\* the longest text, in lines
MaxLines == 3

ParseUnstructuredInsightsCall == Returns(parse_unstructured_insights(state.text))

InitParseUnstructuredInsights ==
    /\ OutsideARun
    /\ pc = "call"
    /\ state \in {[text |-> text] : text \in
          {[json |-> "none", obj |-> << >>, length |-> 40, first_paragraph |-> "",
            lines |-> lines] : lines \in SeqsUpTo(TextLines, MaxLines)}}
    /\ result = << >>

SpecParseUnstructuredInsights == InitParseUnstructuredInsights /\ [][ParseUnstructuredInsightsCall]_vars

(* C25 as stated: in the heuristic fallback of the insight parser a        *)
(* bulleted or numbered line inside a list section is added to that        *)
(* section's list exactly when its content has at least 10 characters;     *)
(* only items shorter than 10 characters are filtered out.                 *)
C25_ItemsOfTenCharactersKept ==
    pc = "returned" =>
        LET lines == state.text.lines
            \* current_section when the i-th line is looked at: the section
            \* of the last line up to it that holds a keyword
            SectionAt(i) ==
                LET headed == {k \in 1..i : lines[k].kw # "none"}
                IN  IF headed = {} THEN None
                    ELSE lines[CHOOSE k \in headed : \A j \in headed : j <= k].kw
            \* the contents, in order, of the bulleted or numbered lines of
            \* the section that have at least 10 characters
            ItemsOf(section) ==
                LET Items[i \in 0..Len(lines)] ==
                        IF i = 0 THEN << >>
                        ELSE IF /\ SectionAt(i) = section
                                /\ lines[i].lead
                                /\ lines[i].clen >= 10
                             THEN Append(Items[i - 1], JStr(<<lines[i].content>>))
                             ELSE Items[i - 1]
                IN  Items[Len(lines)]
        IN  \A section \in ListSections : result[section] = JList(ItemsOf(section))

----------------------------------------------------------------------------
(* parse_risk_response called on its own *)

ParseRiskResponseCall == Returns(parse_risk_response(state.response_text))

\* texts without a brace-delimited span, texts that do not decode, a
\* response that is no string, and decoded objects without "risks" or with
\* an array of risk entries, a string, a single object or null under it
InitParseRiskResponse ==
    /\ OutsideARun
    /\ pc = "call"
    /\ state \in {[response_text |-> text] : text \in
          {Text(json, << >>) : json \in {"none", "invalid", "too_deep", "null"}}
          \cup {Text("object", [summary |-> JStr(<<"no risks key">>)])}
          \cup {Text("object", [risks |-> JList(l)]) :
                   l \in SeqsUpTo(AIRiskEntries, MaxAIRisks)}
          \cup {Text("object", [risks |-> v]) :
                   v \in {JStr(<<"none identified">>), JStr(<< >>),
                          JDict([title |-> "Market Volatility", severity |-> "high"]),
                          JDict([severity |-> "high"]),
                          JDict([title |-> "Market Volatility"]),
                          JNull}}}
    /\ result = << >>

SpecParseRiskResponse == InitParseRiskResponse /\ [][ParseRiskResponseCall]_vars

(* C26 as stated: parse_risk_response never raises and returns a list for  *)
(* every response text: the value of the "risks" array when a JSON object  *)
(* decodes and carries one, and the empty list when no JSON object is      *)
(* found, decoding fails, or the "risks" key is absent or is not an array. *)
C26_AlwaysAList ==
    pc = "returned" =>
        LET text == state.response_text
            carries == /\ text.json = "object"
                       /\ "risks" \in DOMAIN text.obj
                       /\ text.obj["risks"].t = "list"
        IN  /\ result.t = "list"
            /\ carries => result = text.obj["risks"]
            /\ ~carries => result = JList(<< >>)

----------------------------------------------------------------------------
(* The fields of the state each node assigns *)

Writes ==
    [calculate_metrics        |-> {"metrics", "trends"},
     generate_insights        |-> {"insights"},
     identify_risks           |-> {"risks"},
     create_charts            |-> {"charts_data"},
     generate_recommendations |-> {"recommendations"}]

(* C27: each stage writes only its own output field and error, when it     *)
(* succeeds and when it fails: the metrics stage metrics and trends, the   *)
(* insights stage insights, the risk stage risks, the chart stage          *)
(* charts_data, the recommendations stage recommendations; financial_data  *)
(* and persona are never changed, and no later step changes a field an     *)
(* earlier stage wrote.                                                    *)
C27_StageWritesOwnField ==
    [][(pc \in DOMAIN Writes \cup {"END"}) =>
          /\ DOMAIN state' = DOMAIN state
          /\ \A k \in DOMAIN state :
                (pc = "END" \/ k \notin Writes[pc] \cup {"error"}) =>
                    state'[k] = state[k]
          /\ state'.financial_data = financial_data
          /\ state'.persona = persona]_vars

\* a run whose risk stage failed and whose last stage succeeded: what the
\* first two stages stored is still there
C27_Witness ==
    /\ pc = "returned"
    /\ executed = Stages
    /\ FailedStages = {3}
    /\ state.risks = << >>
    /\ state.metrics = calculate_all_metrics(financial_data)
    /\ state.trends # << >>
    /\ state.insights # << >>
    /\ state.insights # FallbackInsights
    /\ state.recommendations # << >>
    /\ state.error[1] = "Risk identification failed: "

(* C28 as stated: the rule-based risks computed from the metrics always    *)
(* appear in the final risk list of the risk stage, whatever the AI        *)
(* collaborator does in that stage: raises, returns text that is not valid *)
(* JSON, or returns an object whose "risks" value is not a list of         *)
(* well-formed risk objects.                                               *)
C28_RuleBasedRisksAlwaysKept ==
    Ran("identify_risks") =>
        LET rule_based_risks == identify_risks(state.metrics)
        IN  \A i \in DOMAIN rule_based_risks :
               \E j \in DOMAIN state.risks : state.risks[j] = rule_based_risks[i]

(* C29: the metrics stage is all-or-nothing: once it has run, either       *)
(* metrics and trends both hold the values it computed, or both are still  *)
(* empty as at the start and state.error carries a "Metrics calculation    *)
(* failed" message when the stage ends; a failure of the trend             *)
(* classification alone leaves metrics empty although every category of    *)
(* metrics was computed.                                                   *)
C29_MetricsAllOrNothing ==
    Ran("calculate_metrics") =>
        LET df == state.financial_data
            computed == \E residue \in Residues(df) :
                           LET trends == identify_metric_trends(df, residue)
                           IN  /\ trends.ok
                               /\ state.trends = trends.val
                               /\ state.metrics = calculate_all_metrics(df)
            nothing  == /\ state.metrics = << >>
                        /\ state.trends = << >>
        IN  /\ Failed("calculate_metrics") => nothing
            /\ ~Failed("calculate_metrics") => computed
            /\ (Failed("calculate_metrics") /\ pc = edges["calculate_metrics"]) =>
                  state.error[1] = "Metrics calculation failed: "
            /\ (\A residue \in Residues(df) : ~identify_metric_trends(df, residue).ok) =>
                  nothing

\* the trend classification failed on a text column: metrics and trends
\* are empty although the six categories were computed, the growth of the
\* net income among them
C29_Witness ==
    /\ pc = "generate_insights"
    /\ Failed("calculate_metrics")
    /\ state.metrics = << >>
    /\ state.trends = << >>
    /\ state.error = <<"Metrics calculation failed: ", "TypeError">>
    /\ DOMAIN calculate_all_metrics(state.financial_data)
         = {"revenue_metrics", "profit_metrics", "margins", "cash_flow",
            "financial_ratios", "timestamp"}
    /\ calculate_all_metrics(state.financial_data)["profit_metrics"].growth_rate = 5000

----------------------------------------------------------------------------
(* calculate_all_metrics called on its own *)

CalculateAllMetricsCall == Returns(calculate_all_metrics(state.df))

\* three periods; the operating cash flow absent, negative, 0 or positive,
\* the cash absent, 0, short or ample, with and without a falling revenue
\* and a current ratio
InitCalculateAllMetrics ==
    /\ OutsideARun
    /\ pc = "call"
    /\ state \in {[df |-> df] : df \in
          {[len |-> 3, str |-> {}, num |-> ocf @@ cash @@ rev @@ ratio] :
              ocf   \in Optional("cash_from_operations",
                                 {<<20, -10, -60>>, <<20, -10, -1>>, <<20, -10, 0>>,
                                  <<20, -10, 40>>}),
              cash  \in Optional("cash_and_equivalents",
                                 {<<100, 60, 0>>, <<100, 60, 20>>, <<100, 60, 1000>>}),
              rev   \in Optional("revenue", {<<1000, 900, 700>>}),
              ratio \in {<< >>,
                         ("current_assets" :> <<300, 250, 200>>)
                           @@ ("current_liabilities" :> <<200, 220, 250>>)}}}
    /\ result = << >>

SpecCalculateAllMetrics == InitCalculateAllMetrics /\ [][CalculateAllMetricsCall]_vars

(* C30: in the metrics calculate_all_metrics produces, runway_months is    *)
(* present only when the reported operating_cash_flow is negative, and is  *)
(* then never the infinite sentinel; so whenever the rule-based risks of   *)
(* these metrics contain "Low Cash Runway" they contain "Negative          *)
(* Operating Cash Flow" too, placed before it.                             *)
C30_RunwayOnlyWithNegativeFlow ==
    pc = "returned" =>
        LET cf    == result["cash_flow"]
            risks == identify_risks(result)
            PlacesOf(title) == {i \in DOMAIN risks : risks[i]["title"] = title}
        IN  /\ "runway_months" \in DOMAIN cf =>
                  /\ "operating_cash_flow" \in DOMAIN cf
                  /\ cf["operating_cash_flow"] < 0
                  /\ cf["runway_months"] # Inf
            /\ \A j \in PlacesOf("Low Cash Runway") :
                  \E i \in PlacesOf("Negative Operating Cash Flow") : i < j

\* a burn of 60 a year on a cash of 20: four months of runway, both risks
\* in the list behind the high risk of the falling revenue
C30_Witness ==
    /\ pc = "returned"
    /\ "runway_months" \in DOMAIN result["cash_flow"]
    /\ result["cash_flow"]["operating_cash_flow"] = -6000
    /\ result["cash_flow"]["runway_months"] = 400
    /\ LET risks == identify_risks(result)
       IN  /\ Len(risks) >= 3
           /\ risks[1]["title"] = "Revenue Decline"
           /\ risks[2]["title"] = "Negative Operating Cash Flow"
           /\ risks[3]["title"] = "Low Cash Runway"

====
